---------------------------- MODULE Spec2Model ----------------------------
(***************************************************************************)
(* Lexora: the query-time retrieval pipeline of src/src/chat.py.           *)
(*                                                                         *)
(* Strings whose characters the code inspects (strip, split, upper,        *)
(* slicing, regular expressions) are sequences of one-character strings;   *)
(* strings the code only passes around are TLA+ strings.  A Python dict    *)
(* is the sequence of its values in insertion order, each value carrying   *)
(* its key in the field id.  Every call of an external service (query      *)
(* expansion, embedding, index query, rerank, synthesis, file write) is a  *)
(* nondeterministic choice between a failure and a response.               *)
(***************************************************************************)
EXTENDS Integers, Sequences, FiniteSets, TLC

VARIABLES
    pc,                 \* position of the running call ("idle": none)
    entry,              \* the function called from the top level
    question,           \* argument of the running call
    queries,            \* multi_query_retrieve: the expanded queries
    qi,                 \* multi_query_retrieve: position in queries
    ix,                 \* position in indexes.items()
    expanded_matches,   \* multi_query_retrieve: dict id -> match
    successful_queries, \* multi_query_retrieve: counter
    candidate_chunks,   \* answer_question: result of multi_query_retrieve
    expanded,           \* expand_with_links: dict id -> match
    ci,                 \* expand_with_links: position in chunks
    related_keys,       \* expand_with_links: seeds of the current chunk
    si,                 \* expand_with_links: position in related_keys[:3]
    links,              \* expand_with_links: the service calls made, in order
    expanded_chunks,    \* answer_question: result of expand_with_links
    top_chunks,         \* answer_question: result of rerank_chunks
    result,             \* outcome of the last top-level call
    chat_history,       \* module-level transcript
    session_file,       \* content of SESSION_FILE on disk
    ncalls,             \* number of answer_question calls started
    calls,              \* events of the running call: requests issued, outcomes
    returned,           \* (id, score, index) of the matches the index queries returned
    log,                \* (question, answer) of every call that returned an answer
    rr_in,              \* rerank_chunks called alone: its arguments and the reply
    rr_out,             \* rerank_chunks called alone: what it returned
    bc_in,              \* build_context called alone: its arguments
    bc_out,             \* build_context called alone: what it returned
    gq_in,              \* generate_alternative_queries called alone: arguments, reply
    gq_out,             \* generate_alternative_queries called alone: what it returned
    ipc,                \* ingest.py: position of the running call ("idle": none)
    ientry,             \* ingest.py: the function called from the top level
    iresult,            \* ingest.py: how the last top-level call ended
    data_dir,           \* the JSON files in the data directory
    dry_run,            \* main: its argument
    files,              \* main: the files found, in listing order
    fi,                 \* main: position in files
    success_count,      \* main: counter
    failed_files,       \* main: names of the files that failed
    cur,                \* ingest_json: the file being ingested
    index_exists,       \* Pinecone: the index is in list_indexes()
    elapsed,            \* create_or_get_index: seconds since start_time
    n_texts,            \* length of the list the running batch loop walks
    batch_size,         \* batch_size of the running batch loop
    bi,                 \* the batch loop's i
    attempt,            \* the retry loop's attempt
    all_embeddings,     \* embed_documents_in_batches: the list of embeddings so far
    store,              \* Pinecone: the ids held by the index
    runs,               \* number of main() runs started
    attempted,          \* names of the files main passed to ingest_json
    ingested,           \* names of the files this run upserted completely
    ready_seen,         \* describe_index has reported the index ready
    timed_out,          \* this run hit the TimeoutError of create_or_get_index
    tries,              \* the batch attempts of the running call, in order
    history,            \* per finished run: its files and the ids held after it
    sm_in,              \* sanitize_metadata alone: its argument
    sm_out,             \* sanitize_metadata alone: its result, once computed
    session,            \* st.session_state of the browser session
    trial_users,        \* Firestore collection trial_users: fingerprint -> count
    firestore_available,\* FIRESTORE_AVAILABLE of the process
    page                \* what the visitor has seen: answers, sessions, errors

vars == <<pc, entry, question, queries, qi, ix, expanded_matches,
          successful_queries, candidate_chunks, expanded, ci, related_keys, si,
          links, expanded_chunks, top_chunks, result, chat_history, session_file,
          ncalls, calls, returned, log, rr_in, rr_out, bc_in, bc_out,
          gq_in, gq_out, ipc, ientry, iresult, data_dir, dry_run, files, fi,
          success_count, failed_files, cur, index_exists, elapsed, n_texts,
          batch_size, bi, attempt, all_embeddings, store, runs, attempted,
          ingested, ready_seen, timed_out, tries, history, sm_in, sm_out,
          session, trial_users, firestore_available, page>>

retrieveVars == <<queries, qi, ix, expanded_matches, successful_queries>>
linkVars == <<expanded, ci, related_keys, si, links>>
sessionVars == <<chat_history, session_file, log>>
rerankVars == <<rr_in, rr_out>>
contextVars == <<bc_in, bc_out>>
expandVars == <<gq_in, gq_out>>
mainVars == <<dry_run, files, fi, success_count, failed_files, runs, attempted,
              ingested, timed_out, history>>
indexVars == <<index_exists, elapsed, ready_seen>>
batchVars == <<n_texts, batch_size, bi, attempt, all_embeddings, tries>>
ingestVars == <<ipc, ientry, iresult, data_dir, cur, mainVars, indexVars,
                batchVars, store>>
sanitizeVars == <<sm_in, sm_out>>
pageVars == <<session, trial_users, firestore_available, page>>
aloneVars == <<rerankVars, contextVars, expandVars, ingestVars, sanitizeVars,
               pageVars>>
pipelineVars == <<pc, entry, question, retrieveVars, candidate_chunks, linkVars,
                  expanded_chunks, top_chunks, result, sessionVars, ncalls,
                  calls, returned>>

-----------------------------------------------------------------------------
(* Bounds of the model. *)

\* answer_question calls in one process run
MaxCalls == 2
\* matches in one index response of the retrieval-only runs
MaxMatches == 2
\* pool size, top_k and reply length when rerank_chunks is called alone
MaxPool == 3
MaxTopK == 3
MaxReplyLen == 3

-----------------------------------------------------------------------------
(* Python strings and lists. *)

Min(a, b) == IF a < b THEN a ELSE b

Max(a, b) == IF a < b THEN b ELSE a

\* s[:n] of a list or a string, n >= 0
Take(s, n) == SubSeq(s, 1, Min(n, Len(s)))

\* s[n:] of a list or a string, n >= 0
Drop(s, n) == SubSeq(s, n + 1, Len(s))

\* the characters str.strip() removes
Whitespace == {" ", "\n", "\t"}

RECURSIVE LStripChars(_, _)
LStripChars(s, cs) ==
    IF s # <<>> /\ Head(s) \in cs THEN LStripChars(Tail(s), cs) ELSE s

RECURSIVE RStripChars(_, _)
RStripChars(s, cs) ==
    IF s # <<>> /\ s[Len(s)] \in cs
    THEN RStripChars(SubSeq(s, 1, Len(s) - 1), cs)
    ELSE s

\* s.strip(chars)
StripChars(s, cs) == RStripChars(LStripChars(s, cs), cs)

\* s.strip()
Strip(s) == StripChars(s, Whitespace)

\* the mutant of IsBlank: "if not question", without the strip
IsBlankNoStrip(s) == s = <<>>

\* not s.strip()
IsBlank(s) == Strip(s) = <<>>

\* s.split(sep) for a one-character separator: always at least one piece
RECURSIVE Split(_, _)
Split(s, sep) ==
    IF \A i \in 1..Len(s) : s[i] # sep
    THEN <<s>>
    ELSE LET k == CHOOSE i \in 1..Len(s) :
                      s[i] = sep /\ \A j \in 1..(i - 1) : s[j] # sep
         IN  <<SubSeq(s, 1, k - 1)>> \o Split(Drop(s, k), sep)

\* the elements of a list, as a set
Range(s) == {s[i] : i \in 1..Len(s)}

\* all lists of length 0..n over S
SeqsUpTo(S, n) == UNION {[1..k -> S] : k \in 0..n}

\* the lists holding every element of the finite set S exactly once
Orderings(S) ==
    {s \in [1..Cardinality(S) -> S] : \A x \in S : \E i \in DOMAIN s : s[i] = x}


-----------------------------------------------------------------------------
(* Outcomes of service calls, values, matches. *)

\* an exception raised by a service call (failure, timeout)
Failed == [ok |-> FALSE, v |-> <<>>]

\* a service call that returned v
Ok(v) == [ok |-> TRUE, v |-> v]

\* how a top-level call ended
Pending == [kind |-> "pending", value |-> <<>>]

Ret(v) == [kind |-> "return", value |-> v]

Raise(e) == [kind |-> "raise", value |-> e]

\* a metadata value: missing (dict.get gives None), a string, or a number
NoVal == [t |-> "none", v |-> <<>>]

NumVal == [t |-> "int", v |-> <<"7">>]

StrVal(s) == [t |-> "str", v |-> s]

S_constitution == <<"c", "o", "n", "s", "t", "i", "t", "u", "t", "i", "o", "n">>

S_criminal == <<"c", "r", "i", "m", "i", "n", "a", "l">>

S_unknown == <<"u", "n", "k", "n", "o", "w", "n">>

\* indexes.items(): a dict iterates in insertion order
IndexNames == <<S_constitution, S_criminal>>

\* similarity scores, as tenths (0.7, 0.9)
Scores == {7, 9}

T_law == <<"l", "a", "w">>

\* a match as an index returns it: index_source is not set yet (<<>>)
Match(id, score, text, schedule, appendix, part) ==
    [id |-> id, score |-> score,
     metadata |-> [text |-> text, index_source |-> <<>>,
                   schedule |-> schedule, appendix |-> appendix, part |-> part]]

PlainMatch(id, score) == Match(id, score, T_law, NoVal, NoVal, NoVal)

\* m["metadata"]["index_source"] = name
Tagged(m, name) == [m EXCEPT !.metadata.index_source = <<name>>]

-----------------------------------------------------------------------------
(* A dict keyed by id, as the list of its values in insertion order. *)

HasKey(d, id) == \E i \in 1..Len(d) : d[i].id = id

Get(d, id) == d[CHOOSE i \in 1..Len(d) : d[i].id = id]

\* d[m["id"]] = m: an existing key keeps its place, a new key goes last
DictPut(d, m) ==
    IF HasKey(d, m.id)
    THEN [i \in 1..Len(d) |-> IF d[i].id = m.id THEN m ELSE d[i]]
    ELSE Append(d, m)

\* {c["id"]: c for c in chunks}
RECURSIVE DictOf(_)
DictOf(chunks) ==
    IF chunks = <<>> THEN <<>>
    ELSE DictPut(DictOf(SubSeq(chunks, 1, Len(chunks) - 1)), chunks[Len(chunks)])

-----------------------------------------------------------------------------
(* generate_alternative_queries *)

\* the characters of q.strip("-\u20221234567890. "); "u2022" is the bullet U+2022
BulletChars == {"-", "u2022", "1", "2", "3", "4", "5", "6", "7", "8", "9", "0", ".", " "}

\* [q.strip("-\u20221234567890. ") for q in content.split("\n") if q.strip()]
RECURSIVE Variations(_)
Variations(lines) ==
    IF lines = <<>> THEN <<>>
    ELSE IF IsBlank(Head(lines)) THEN Variations(Tail(lines))
    ELSE <<StripChars(Head(lines), BulletChars)>> \o Variations(Tail(lines))

\* The lists generate_alternative_queries(question, n) can return when the
\* completion call ends as reply.  list(set(...)) orders the set by hash, which
\* differs from run to run: every order is possible.
GenerateAlternativeQueries(q, n, reply) ==
    IF IsBlank(q) \/ ~reply.ok
    THEN {<<q>>}
    ELSE LET content == Strip(reply.v)
             variations == Variations(Split(content, "\n"))
         IN  {Take(o, n + 1) : o \in Orderings({q} \cup Range(variations))}

\* whether generate_alternative_queries calls the completion service
ExpansionCalls(q) == IF IsBlank(q) THEN {} ELSE {"expansion"}

\* n of the call in multi_query_retrieve
N_VARIATIONS == 3

\* completion texts the expansion call returns in the runs below
ExpansionContents ==
    { <<>>,
      <<"b">>,
      <<"1", ".", " ", "b", "\n", "-", " ", "c">>,
      <<"2", ".", "\n", "b">> }

ExpansionReplies == {Failed} \cup {Ok(c) : c \in ExpansionContents}

Questions == { <<>>, <<" ", "\n">>, <<"q">>, <<"b">> }

-----------------------------------------------------------------------------
(* multi_query_retrieve *)

\* the mutant of MergeMatch: an equal score replaces the entry too
MergeMatchOnTie(d, m) ==
    IF ~HasKey(d, m.id) \/ m.score >= Get(d, m.id).score
    THEN DictPut(d, m)
    ELSE d

\* the mutant of MergeMatch: the latest match wins whatever its score
MergeMatchLastWins(d, m) == DictPut(d, m)

\* lines 127-128: keep a new id, or a strictly higher score
MergeMatch(d, m) ==
    IF ~HasKey(d, m.id) \/ m.score > Get(d, m.id).score
    THEN DictPut(d, m)
    ELSE d

\* for m in res.get("matches", []): tag and merge
RECURSIVE MergeMatches(_, _, _)
MergeMatches(d, ms, name) ==
    IF ms = <<>> THEN d
    ELSE MergeMatches(MergeMatch(d, Tagged(Head(ms), name)), Tail(ms), name)

\* the locals of a call before it runs
FreshLocals ==
    /\ queries' = <<>>
    /\ qi' = 1
    /\ ix' = 1
    /\ expanded_matches' = <<>>
    /\ successful_queries' = 0
    /\ candidate_chunks' = <<>>
    /\ expanded' = <<>>
    /\ ci' = 1
    /\ related_keys' = <<>>
    /\ si' = 1
    /\ links' = <<>>
    /\ expanded_chunks' = <<>>
    /\ top_chunks' = <<>>
    /\ calls' = {}
    /\ returned' = {}

\* multi_query_retrieve(question) called from the top level (evaluate.py)
CallMultiQueryRetrieve(q) ==
    /\ pc = "idle"
    /\ pc' = "mqr"
    /\ entry' = "multi_query_retrieve"
    /\ question' = q
    /\ result' = Pending
    /\ FreshLocals
    /\ UNCHANGED <<sessionVars, ncalls, aloneVars>>

\* return v from multi_query_retrieve, to the top level or to answer_question;
\* the locals of the call end with it
ReturnMatches(v) ==
    /\ queries' = <<>>
    /\ qi' = 1
    /\ ix' = 1
    /\ expanded_matches' = <<>>
    /\ successful_queries' = 0
    /\ IF entry = "multi_query_retrieve"
       THEN /\ pc' = "idle"
            /\ result' = Ret(v)
            /\ UNCHANGED <<candidate_chunks, returned>>
       ELSE /\ pc' = "aq_retrieved"
            /\ candidate_chunks' = v
            /\ returned' = {}
            /\ UNCHANGED result

\* the mutant of MQR_Except: the exception leaves multi_query_retrieve
MQR_ExceptPropagates ==
    /\ pc' = "idle"
    /\ qi' = qi
    /\ result' = Raise(<<"service error">>)

\* lines 130-132: except Exception: print, continue with the next query
MQR_Except ==
    /\ pc' = "mqr_embed"
    /\ qi' = qi + 1
    /\ result' = result

\* lines 110-118: the blank check, then the expansion call
MQR_Begin(replies) ==
    /\ pc = "mqr"
    /\ IF IsBlank(question)
       THEN /\ ReturnMatches(<<>>)
            /\ UNCHANGED calls
       ELSE /\ \E reply \in replies :
                 \E qs \in GenerateAlternativeQueries(question, N_VARIATIONS, reply) :
                     queries' = qs
            /\ calls' = calls \cup ExpansionCalls(question)
            /\ qi' = 1
            /\ ix' = 1
            /\ expanded_matches' = <<>>
            /\ successful_queries' = 0
            /\ pc' = "mqr_embed"
            /\ UNCHANGED <<candidate_chunks, result, returned>>
    /\ UNCHANGED <<entry, question, linkVars, expanded_chunks, top_chunks,
                   sessionVars, ncalls, aloneVars>>

\* lines 120-122 and 130-137: the next query is embedded, or the loop ends
MQR_Embed ==
    /\ pc = "mqr_embed"
    /\ IF qi > Len(queries)
       THEN /\ ReturnMatches(expanded_matches)
            /\ UNCHANGED calls
       ELSE /\ calls' = calls \cup {"embedding"}
            /\ \E ok \in BOOLEAN :
                 IF ok
                 THEN pc' = "mqr_query" /\ ix' = 1 /\ qi' = qi /\ result' = result
                 ELSE MQR_Except /\ ix' = ix
            /\ UNCHANGED <<queries, expanded_matches, successful_queries,
                           candidate_chunks, returned>>
    /\ UNCHANGED <<entry, question, linkVars, expanded_chunks, top_chunks,
                   sessionVars, ncalls, aloneVars>>

\* lines 123-129: one index is queried with the embedding and its matches are
\* merged; a failure leaves the try block and goes on with the next query
MQR_Query(lists) ==
    /\ pc = "mqr_query"
    /\ IF ix > Len(IndexNames)
       THEN /\ successful_queries' = successful_queries + 1
            /\ calls' = calls \cup {"variant_succeeded"}
            /\ qi' = qi + 1
            /\ pc' = "mqr_embed"
            /\ UNCHANGED <<ix, expanded_matches, returned, result>>
       ELSE /\ \E r \in {Failed} \cup {Ok(l) : l \in lists[ix]} :
                 IF r.ok
                 THEN /\ expanded_matches' =
                            MergeMatches(expanded_matches, r.v, IndexNames[ix])
                      /\ returned' = returned \cup
                            {<<r.v[i].id, r.v[i].score, IndexNames[ix]>> :
                                 i \in 1..Len(r.v)}
                      /\ calls' = calls \cup {"index_query", "index_response"}
                      /\ ix' = ix + 1
                      /\ pc' = "mqr_query"
                      /\ qi' = qi
                      /\ result' = result
                 ELSE /\ MQR_Except
                      /\ calls' = calls \cup {"index_query"}
                      /\ UNCHANGED <<ix, expanded_matches, returned>>
            /\ UNCHANGED successful_queries
    /\ UNCHANGED <<entry, question, queries, candidate_chunks, linkVars,
                   expanded_chunks, top_chunks, sessionVars, ncalls,
                   aloneVars>>

-----------------------------------------------------------------------------
(* rerank_chunks *)

Digits == <<"0", "1", "2", "3", "4", "5", "6", "7", "8", "9">>

LowerCase == <<"a", "b", "c", "d", "e", "f", "g", "h", "i", "j", "k", "l", "m",
               "n", "o", "p", "q", "r", "s", "t", "u", "v", "w", "x", "y", "z">>

UpperCase == <<"A", "B", "C", "D", "E", "F", "G", "H", "I", "J", "K", "L", "M",
               "N", "O", "P", "Q", "R", "S", "T", "U", "V", "W", "X", "Y", "Z">>

IsDigit(c) == c \in Range(Digits)

\* \w of a regular expression
IsWordChar(c) == c \in Range(Digits) \cup Range(LowerCase) \cup Range(UpperCase) \cup {"_"}

\* the last position of the run of digits that starts at i
RECURSIVE DigitRunEnd(_, _)
DigitRunEnd(s, i) ==
    IF i < Len(s) /\ IsDigit(s[i + 1]) THEN DigitRunEnd(s, i + 1) ELSE i

\* re.findall(r'\b\d+\b', s) from position i on: the maximal runs of digits
\* with no word character on either side
RECURSIVE FindNumbersFrom(_, _)
FindNumbersFrom(s, i) ==
    IF i > Len(s) THEN <<>>
    ELSE IF IsDigit(s[i]) /\ (i = 1 \/ ~IsWordChar(s[i - 1]))
    THEN LET j == DigitRunEnd(s, i)
         IN  IF j = Len(s) \/ ~IsWordChar(s[j + 1])
             THEN <<SubSeq(s, i, j)>> \o FindNumbersFrom(s, j + 1)
             ELSE FindNumbersFrom(s, j + 1)
    ELSE FindNumbersFrom(s, i + 1)

FindAllNumbers(s) == FindNumbersFrom(s, 1)

\* int(num_str) of a string of digits
RECURSIVE IntOf(_)
IntOf(ds) ==
    IF ds = <<>> THEN 0
    ELSE 10 * IntOf(SubSeq(ds, 1, Len(ds) - 1))
         + ((CHOOSE k \in 1..10 : Digits[k] = ds[Len(ds)]) - 1)

\* the mutant of SelectIdx: an index that was taken already is taken again
RECURSIVE SelectIdxKeepsRepeats(_, _, _, _)
SelectIdxKeepsRepeats(numbers, selected_idx, n, top_k) ==
    IF numbers = <<>> THEN selected_idx
    ELSE LET idx == IntOf(Head(numbers))
             sel == IF 0 <= idx /\ idx < n
                    THEN Append(selected_idx, idx)
                    ELSE selected_idx
         IN  IF Len(sel) >= top_k THEN sel
             ELSE SelectIdxKeepsRepeats(Tail(numbers), sel, n, top_k)

\* lines 211-220: the distinct in-range indices, in order, until top_k are taken
RECURSIVE SelectIdx(_, _, _, _)
SelectIdx(numbers, selected_idx, n, top_k) ==
    IF numbers = <<>> THEN selected_idx
    ELSE LET idx == IntOf(Head(numbers))
             sel == IF 0 <= idx /\ idx < n /\ idx \notin Range(selected_idx)
                    THEN Append(selected_idx, idx)
                    ELSE selected_idx
         IN  IF Len(sel) >= top_k THEN sel
             ELSE SelectIdx(Tail(numbers), sel, n, top_k)

\* lines 222-226: for i in range(len(chunks)), from i on
RECURSIVE Pad(_, _, _, _)
Pad(selected_idx, i, n, top_k) ==
    IF i >= n THEN selected_idx
    ELSE LET sel == IF i \notin Range(selected_idx)
                    THEN Append(selected_idx, i)
                    ELSE selected_idx
         IN  IF Len(sel) >= top_k THEN sel
             ELSE Pad(sel, i + 1, n, top_k)

\* the mutant of Pick: selected_idx is not cut to top_k
PickAll(chunks, selected_idx, top_k) ==
    [k \in 1..Len(selected_idx) |-> chunks[selected_idx[k] + 1]]

\* [chunks[i] for i in selected_idx[:top_k]], the indices counted from 0
Pick(chunks, selected_idx, top_k) ==
    LET sel == Take(selected_idx, top_k)
    IN  [k \in 1..Len(sel) |-> chunks[sel[k] + 1]]

\* the mutant of ParsedSelection: the padding of lines 221-226 is left out
ParsedSelectionNoPad(chunks, top_k, content) ==
    Pick(chunks,
         SelectIdx(FindAllNumbers(Strip(content)), <<>>, Len(chunks), top_k),
         top_k)

\* lines 209-227: the chunks the reply selects, padded in pool order
ParsedSelection(chunks, top_k, content) ==
    LET raw_output == Strip(content)
        numbers == FindAllNumbers(raw_output)
        selected_idx == SelectIdx(numbers, <<>>, Len(chunks), top_k)
        padded == IF Len(selected_idx) < top_k
                  THEN Pad(selected_idx, 0, Len(chunks), top_k)
                  ELSE selected_idx
    IN  Pick(chunks, padded, top_k)

\* the sorted list with c put after the entries whose score is not lower
RECURSIVE InsertByScore(_, _)
InsertByScore(sorted, c) ==
    IF sorted = <<>> THEN <<c>>
    ELSE IF Head(sorted).score >= c.score
    THEN <<Head(sorted)>> \o InsertByScore(Tail(sorted), c)
    ELSE <<c>> \o sorted

\* the mutant of SortedByScore: sorted() without reverse=True
RECURSIVE SortedByScoreAscending(_)
SortedByScoreAscending(chunks) ==
    IF chunks = <<>> THEN <<>>
    ELSE LET rest == SortedByScoreAscending(SubSeq(chunks, 1, Len(chunks) - 1))
             c == chunks[Len(chunks)]
             k == Cardinality({i \in 1..Len(rest) : rest[i].score <= c.score})
         IN  SubSeq(rest, 1, k) \o <<c>> \o SubSeq(rest, k + 1, Len(rest))

\* sorted(chunks, key=score, reverse=True): descending and stable
RECURSIVE SortedByScore(_)
SortedByScore(chunks) ==
    IF chunks = <<>> THEN <<>>
    ELSE InsertByScore(SortedByScore(SubSeq(chunks, 1, Len(chunks) - 1)),
                       chunks[Len(chunks)])

\* the mutant of PassThrough: "<" for "<="
PassThroughStrict(chunks, top_k) == Len(chunks) < top_k

\* line 179
PassThrough(chunks, top_k) == Len(chunks) <= top_k

\* rerank_chunks(question, chunks, top_k) when the ranking call ends as reply:
\* the list returned, and whether the completion service was called.  The
\* prompt (lines 182-199) only goes to the service.
rerank_chunks(chunks, top_k, reply) ==
    IF chunks = <<>> THEN [out |-> <<>>, called |-> FALSE]
    ELSE IF PassThrough(chunks, top_k)
    THEN [out |-> Take(chunks, top_k), called |-> FALSE]
    ELSE IF reply.ok
    THEN [out |-> ParsedSelection(chunks, top_k, reply.v), called |-> TRUE]
    ELSE [out |-> Take(SortedByScore(chunks), top_k), called |-> TRUE]

-----------------------------------------------------------------------------
(* build_context *)

UpperChar(c) ==
    IF c \in Range(LowerCase)
    THEN UpperCase[CHOOSE k \in 1..26 : LowerCase[k] = c]
    ELSE c

\* s.upper()
UpperStr(s) == [i \in 1..Len(s) |-> UpperChar(s[i])]

\* s.rsplit(' ', 1)[0]: what precedes the last blank, or all of s
RSplitHead(s) ==
    IF \E i \in 1..Len(s) : s[i] = " "
    THEN LET k == CHOOSE i \in 1..Len(s) :
                      s[i] = " " /\ \A j \in (i + 1)..Len(s) : s[j] # " "
         IN  SubSeq(s, 1, k - 1)
    ELSE s

\* sep.join(parts)
RECURSIVE Join(_, _)
Join(parts, sep) ==
    IF parts = <<>> THEN <<>>
    ELSE IF Len(parts) = 1 THEN parts[1]
    ELSE parts[1] \o sep \o Join(Tail(parts), sep)

\* c.get('metadata', {}).get('index_source', 'unknown')
SourceOf(c) ==
    IF c.metadata.index_source = <<>> THEN S_unknown ELSE c.metadata.index_source[1]

\* f"[{source.upper()}] {text}"
Snippet(c) == <<"[">> \o UpperStr(SourceOf(c)) \o <<"]", " ">> \o c.metadata.text

\* line 246: the least remaining budget that still admits a truncated snippet
MIN_REMAINING == 100

\* the mutant of ContextParts: a snippet that does not fit is passed over and
\* the loop goes on to the next chunk
RECURSIVE ContextPartsGoesOn(_, _, _, _, _)
ContextPartsGoesOn(chunks, i, context_parts, total_length, max_length) ==
    IF i > Len(chunks) THEN context_parts
    ELSE IF IsBlank(chunks[i].metadata.text)
    THEN ContextPartsGoesOn(chunks, i + 1, context_parts, total_length, max_length)
    ELSE LET snippet == Snippet(chunks[i])
         IN  IF total_length + Len(snippet) > max_length
             THEN ContextPartsGoesOn(chunks, i + 1, context_parts, total_length,
                                     max_length)
             ELSE ContextPartsGoesOn(chunks, i + 1, Append(context_parts, snippet),
                                     total_length + Len(snippet), max_length)

\* lines 238-253: the loop from chunk i on
RECURSIVE ContextParts(_, _, _, _, _)
ContextParts(chunks, i, context_parts, total_length, max_length) ==
    IF i > Len(chunks) THEN context_parts
    ELSE IF IsBlank(chunks[i].metadata.text)
    THEN ContextParts(chunks, i + 1, context_parts, total_length, max_length)
    ELSE LET snippet == Snippet(chunks[i])
         IN  IF total_length + Len(snippet) > max_length
             THEN LET remaining == max_length - total_length
                  IN  IF remaining > MIN_REMAINING
                      THEN Append(context_parts,
                                  RSplitHead(Take(snippet, remaining))
                                      \o <<".", ".", ".">>)
                      ELSE context_parts
             ELSE IF total_length + Len(snippet) >= max_length
             THEN Append(context_parts, snippet)
             ELSE ContextParts(chunks, i + 1, Append(context_parts, snippet),
                               total_length + Len(snippet), max_length)

\* build_context(chunks, max_length)
build_context(chunks, max_length) ==
    Join(ContextParts(chunks, 1, <<>>, 0, max_length), <<"\n", "\n">>)

-----------------------------------------------------------------------------
(* expand_with_links *)

\* line 155: related_keys[:3]
MAX_SEEDS == 3

\* line 153: the least trimmed length of a seed is one more than this
MIN_SEED_LEN == 2

\* the mutant of IsSeed: the length is taken without strip()
IsSeedUntrimmed(val) == val.t = "str" /\ Len(val.v) > MIN_SEED_LEN

\* line 153: value and isinstance(value, str) and len(value.strip()) > 2
IsSeed(val) == val.t = "str" /\ val.v # <<>> /\ Len(Strip(val.v)) > MIN_SEED_LEN

\* lines 150-154: the seed values of a chunk, in the order of the keys
RelatedKeys(meta) ==
    (IF IsSeed(meta.schedule) THEN <<meta.schedule.v>> ELSE <<>>)
    \o (IF IsSeed(meta.appendix) THEN <<meta.appendix.v>> ELSE <<>>)
    \o (IF IsSeed(meta.part) THEN <<meta.part.v>> ELSE <<>>)

\* the mutant of AddNew: the rule of multi_query_retrieve, a higher score
\* replaces the entry
AddNewOrHigherScore(d, m) ==
    IF ~HasKey(d, m.id) \/ m.score > Get(d, m.id).score THEN DictPut(d, m) ELSE d

\* lines 163-164: only a new id is added
AddNew(d, m) == IF HasKey(d, m.id) THEN d ELSE DictPut(d, m)

\* for m in followup.get("matches", []): tag and add
RECURSIVE AddNewMatches(_, _, _)
AddNewMatches(d, ms, name) ==
    IF ms = <<>> THEN d
    ELSE AddNewMatches(AddNew(d, Tagged(Head(ms), name)), Tail(ms), name)

\* expand_with_links(chunks) called from the top level (evaluate.py)
CallExpandWithLinks(chunks) ==
    /\ pc = "idle"
    /\ pc' = "xl"
    /\ entry' = "expand_with_links"
    /\ candidate_chunks' = chunks
    /\ result' = Pending
    /\ expanded' = <<>>
    /\ ci' = 1
    /\ related_keys' = <<>>
    /\ si' = 1
    /\ links' = <<>>
    /\ expanded_chunks' = <<>>
    /\ top_chunks' = <<>>
    /\ calls' = {}
    /\ returned' = {}
    /\ UNCHANGED <<question, retrieveVars, sessionVars, ncalls, aloneVars>>

\* return v from expand_with_links, to the top level or to answer_question;
\* the locals of the call end with it
ReturnExpanded(v) ==
    /\ expanded' = <<>>
    /\ ci' = 1
    /\ related_keys' = <<>>
    /\ si' = 1
    /\ ix' = 1
    /\ IF entry = "expand_with_links"
       THEN /\ pc' = "idle"
            /\ result' = Ret(v)
            /\ UNCHANGED <<expanded_chunks, links>>
       ELSE /\ pc' = "aq_expanded"
            /\ expanded_chunks' = v
            /\ links' = <<>>
            /\ UNCHANGED result

\* one service call of expand_with_links: the embedding of a seed (index "")
\* or the query of one index with it
LinkCall(op, index, ok, matches) ==
    [op |-> op, c |-> ci, s |-> si, seed |-> related_keys[si], index |-> index,
     ok |-> ok, matches |-> matches]

\* m["metadata"]["index_source"] = name, for every match of a response
TaggedAll(ms, name) == [i \in 1..Len(ms) |-> Tagged(ms[i], name)]

\* the mutant of XL_Except: only the try block around the whole chunk is there,
\* so the other seeds of the chunk are skipped
XL_ExceptSkipsChunk ==
    /\ pc' = "xl_embed"
    /\ si' = Len(related_keys) + 1

\* lines 165-166: except Exception: print; the loop goes on with the next seed
XL_Except ==
    /\ pc' = "xl_embed"
    /\ si' = si + 1

\* lines 143-146
XL_Begin ==
    /\ pc = "xl"
    /\ IF candidate_chunks = <<>>
       THEN ReturnExpanded(<<>>)
       ELSE /\ expanded' = DictOf(candidate_chunks)
            /\ ci' = 1
            /\ pc' = "xl_chunk"
            /\ UNCHANGED <<related_keys, si, ix, links, expanded_chunks, result>>
    /\ UNCHANGED <<entry, question, queries, qi, expanded_matches,
                   successful_queries, candidate_chunks, top_chunks,
                   sessionVars, ncalls, calls, returned, aloneVars>>

\* the mutant of SeedSource: the loop walks the growing dict, so a match
\* that a follow-up query found is taken for seeds as well
SeedSourceGrows == expanded

\* line 148: for c in chunks
SeedSource == candidate_chunks

\* lines 147-155 and 171: the seeds of the next chunk, or the loop ends
XL_Chunk ==
    /\ pc = "xl_chunk"
    /\ IF ci > Len(SeedSource)
       THEN ReturnExpanded(expanded)
       ELSE /\ related_keys' = RelatedKeys(SeedSource[ci].metadata)
            /\ si' = 1
            /\ pc' = "xl_embed"
            /\ UNCHANGED <<expanded, ci, ix, links, expanded_chunks, result>>
    /\ UNCHANGED <<entry, question, queries, qi, expanded_matches,
                   successful_queries, candidate_chunks, top_chunks,
                   sessionVars, ncalls, calls, returned, aloneVars>>

\* lines 155-157: the next seed is embedded, or the chunk is done
XL_Embed ==
    /\ pc = "xl_embed"
    /\ IF si > Len(Take(related_keys, MAX_SEEDS))
       THEN /\ ci' = ci + 1
            /\ pc' = "xl_chunk"
            /\ UNCHANGED <<si, ix, calls, links>>
       ELSE /\ calls' = calls \cup {"link_embedding"}
            /\ \E ok \in BOOLEAN :
                 /\ links' = Append(links, LinkCall("embed", "", ok, <<>>))
                 /\ IF ok
                    THEN pc' = "xl_query" /\ ix' = 1 /\ si' = si
                    ELSE XL_Except /\ ix' = ix
            /\ UNCHANGED ci
    /\ UNCHANGED <<entry, question, queries, qi, expanded_matches,
                   successful_queries, candidate_chunks, expanded, related_keys,
                   expanded_chunks, top_chunks, result, sessionVars, ncalls,
                   returned, aloneVars>>

\* lines 159-164: one index is queried with the seed's embedding
XL_Query(lists) ==
    /\ pc = "xl_query"
    /\ IF ix > Len(IndexNames)
       THEN /\ si' = si + 1
            /\ pc' = "xl_embed"
            /\ UNCHANGED <<ix, expanded, calls, links>>
       ELSE /\ calls' = calls \cup {"link_query"}
            /\ \E r \in {Failed} \cup {Ok(l) : l \in lists[ix]} :
                 IF r.ok
                 THEN /\ expanded' = AddNewMatches(expanded, r.v, IndexNames[ix])
                      /\ links' = Append(links,
                            LinkCall("query", IndexNames[ix], TRUE,
                                     TaggedAll(r.v, IndexNames[ix])))
                      /\ ix' = ix + 1
                      /\ pc' = "xl_query"
                      /\ si' = si
                 ELSE /\ XL_Except
                      /\ links' = Append(links,
                            LinkCall("query", IndexNames[ix], FALSE, <<>>))
                      /\ UNCHANGED <<ix, expanded>>
    /\ UNCHANGED <<entry, question, queries, qi, expanded_matches,
                   successful_queries, candidate_chunks, ci, related_keys,
                   expanded_chunks, top_chunks, result, sessionVars, ncalls,
                   returned, aloneVars>>

-----------------------------------------------------------------------------
(* answer_question and save_session *)

\* line 267: top_k of the rerank
TOP_K == 5

\* line 268: max_length of the context
MAX_CONTEXT == 8000

MsgInvalid == <<"Please provide a valid question.">>

MsgNotFound == <<"I couldn't find relevant information.">>

MsgNoContent == <<"I found data but couldn't extract meaningful content.">>

\* line 288; the prefix starts with a cross mark (U+274C)
ERROR_PREFIX == "Error while answering: "

\* str(e) of a failed completion call
ServiceError == <<"service error">>

\* a file whose write broke off after open(SESSION_FILE, "w") truncated it
PartialFile == <<[role |-> "partial", content |-> <<>>]>>

\* the mutant of AppendTurns: the question is not recorded
AppendTurnsAnswerOnly(h, q, a) == Append(h, [role |-> "assistant", content |-> a])

\* lines 283-284
AppendTurns(h, q, a) ==
    Append(Append(h, [role |-> "user", content |-> q]),
           [role |-> "assistant", content |-> a])

\* save_session, lines 69-74: the file is opened for writing and the whole
\* transcript dumped; open can fail (file untouched) and the dump can fail
\* (file cut short); either way the exception is caught
SaveSession(h, outcome) ==
    IF outcome = "written" THEN h
    ELSE IF outcome = "open_failed" THEN session_file
    ELSE PartialFile

SaveOutcomes == {"written", "open_failed", "write_failed"}

\* the mutant of NoCandidates: the check of line 264 is missing
NoCandidatesUnchecked(chunks) == FALSE

\* line 264: not candidate_chunks
NoCandidates(chunks) == chunks = <<>>

\* the mutant of AQ_Except: the exception leaves answer_question
AQ_ExceptPropagates(e) ==
    /\ result' = Raise(e)
    /\ pc' = "idle"

\* lines 287-288: except Exception as e: return the error string
AQ_Except(e) ==
    /\ result' = Ret(<<ERROR_PREFIX>> \o e)
    /\ pc' = "idle"

\* the mutant of SessionKept: the question is recorded before the completion
\* call, so a failed call leaves it in the transcript
SessionKeepsQuestion ==
    /\ chat_history' = Append(chat_history, [role |-> "user", content |-> question])
    /\ UNCHANGED <<session_file, log>>

\* lines 272-288: the appends and save_session come after the completion
\* call; the except branch touches neither the transcript nor the file
SessionKept == UNCHANGED sessionVars

\* lines 259-263: the blank check, then multi_query_retrieve is called
AnswerQuestion(q) ==
    /\ pc = "idle"
    /\ ncalls < MaxCalls
    /\ ncalls' = ncalls + 1
    /\ entry' = "answer_question"
    /\ question' = q
    /\ FreshLocals
    /\ IF IsBlank(q)
       THEN result' = Ret(MsgInvalid) /\ pc' = "idle"
       ELSE result' = Pending /\ pc' = "mqr"
    /\ UNCHANGED <<sessionVars, aloneVars>>

\* lines 264-266: nothing retrieved, or expand_with_links is called
AQ_Retrieved ==
    /\ pc = "aq_retrieved"
    /\ IF NoCandidates(candidate_chunks)
       THEN result' = Ret(MsgNotFound) /\ pc' = "idle"
       ELSE result' = result /\ pc' = "xl"
    /\ UNCHANGED <<entry, question, retrieveVars, candidate_chunks, linkVars,
                   expanded_chunks, top_chunks, sessionVars, ncalls, calls,
                   returned, aloneVars>>

\* line 267: rerank_chunks, with its one call of the completion service
AQ_Rerank(replies) ==
    /\ pc = "aq_expanded"
    /\ \E reply \in replies :
         LET r == rerank_chunks(expanded_chunks, TOP_K, reply)
         IN  /\ top_chunks' = r.out
             /\ calls' = calls \cup (IF r.called THEN {"rerank"} ELSE {})
                              \cup (IF r.called /\ ~reply.ok
                                    THEN {"rerank_failed"} ELSE {})
    /\ pc' = "aq_reranked"
    /\ UNCHANGED <<entry, question, retrieveVars, candidate_chunks, linkVars,
                   expanded_chunks, result, sessionVars, ncalls, returned,
                   aloneVars>>

\* lines 268-288: the context, the final completion call, the two turns
\* appended and the session saved
AQ_Synthesize(answers) ==
    /\ pc = "aq_reranked"
    /\ LET context == build_context(top_chunks, MAX_CONTEXT)
       IN  IF IsBlank(context)
           THEN /\ result' = Ret(MsgNoContent)
                /\ pc' = "idle"
                /\ UNCHANGED <<calls, sessionVars>>
           ELSE \E reply \in {Failed} \cup {Ok(a) : a \in answers} :
                  IF reply.ok
                  THEN /\ calls' = calls \cup {"synthesis", "save_session"}
                       /\ chat_history' = AppendTurns(chat_history, question, reply.v)
                       /\ \E outcome \in SaveOutcomes :
                            session_file' = SaveSession(chat_history', outcome)
                       /\ result' = Ret(reply.v)
                       /\ log' = Append(log, [q |-> question, a |-> result'.value])
                       /\ pc' = "idle"
                  ELSE /\ calls' = calls \cup {"synthesis", "synthesis_failed"}
                       /\ AQ_Except(ServiceError)
                       /\ SessionKept
    /\ UNCHANGED <<entry, question, retrieveVars, candidate_chunks, linkVars,
                   expanded_chunks, top_chunks, ncalls, returned, aloneVars>>

-----------------------------------------------------------------------------
(* The process that answers questions: a small corpus in the two indexes. *)

\* the module after import, nothing called yet
InitIdle ==
    /\ pc = "idle"
    /\ entry = "none"
    /\ question = <<>>
    /\ queries = <<>>
    /\ qi = 1
    /\ ix = 1
    /\ expanded_matches = <<>>
    /\ successful_queries = 0
    /\ candidate_chunks = <<>>
    /\ expanded = <<>>
    /\ ci = 1
    /\ related_keys = <<>>
    /\ si = 1
    /\ links = <<>>
    /\ expanded_chunks = <<>>
    /\ top_chunks = <<>>
    /\ result = Pending
    /\ chat_history = <<>>
    /\ session_file = <<>>
    /\ ncalls = 0
    /\ calls = {}
    /\ returned = {}
    /\ log = <<>>

NoRerank == rr_in = <<>> /\ rr_out = <<>>
NoContext == bc_in = <<>> /\ bc_out = <<>>
NoExpand == gq_in = <<>> /\ gq_out = <<>>

\* the file record of a call that has none
NoFile == [name |-> "", kind |-> "none", n |-> 0, body |-> ""]

\* ingest.py not started; the data directory is empty
IngestIdle ==
    /\ ipc = "idle"
    /\ ientry = "none"
    /\ iresult = "none"
    /\ dry_run = FALSE
    /\ files = <<>>
    /\ fi = 1
    /\ success_count = 0
    /\ failed_files = <<>>
    /\ cur = NoFile
    /\ elapsed = 0
    /\ n_texts = 0
    /\ batch_size = 1
    /\ bi = 0
    /\ attempt = 0
    /\ all_embeddings = <<>>
    /\ store = {}
    /\ runs = 0
    /\ attempted = <<>>
    /\ ingested = {}
    /\ timed_out = FALSE
    /\ tries = <<>>
    /\ history = <<>>

NoIngest ==
    /\ IngestIdle
    /\ data_dir = {}
    /\ index_exists = FALSE
    /\ ready_seen = FALSE

\* no sanitize_metadata call of its own
NoSanitize == sm_in = <<>> /\ sm_out = <<>>

\* the chat page has not been opened
NoPage ==
    /\ session = <<>>
    /\ trial_users = <<>>
    /\ firestore_available = FALSE
    /\ page = <<>>

NotAlone == NoRerank /\ NoContext /\ NoExpand /\ NoIngest /\ NoSanitize /\ NoPage


S_VII == <<"V", "I", "I">>

A1 == Match("a1", 7, T_law, StrVal(S_VII), NoVal, NoVal)

A2 == Match("a2", 7, <<" ">>, NoVal, StrVal(<<"I", "V">>), NoVal)

A3 == Match("a3", 9, T_law, NoVal, NoVal, NoVal)

E1 == Match("e1", 9, <<" ", "\n">>, NoVal, NoVal, NoVal)

B1 == Match("b1", 9, T_law, NoVal, NoVal, StrVal(<<" ", "I", "I", "I", " ">>))

B2 == PlainMatch("b2", 7)

B3 == PlainMatch("b3", 9)

\* the same id as A1, stored in the other index, scoring higher
A1InCriminal == PlainMatch("a1", 9)

X1 == PlainMatch("x1", 7)

\* what a query of each index can return (k = 5)
CorpusResponses ==
    <<{<<>>, <<E1>>, <<A1, A2, A3>>},
      {<<>>, <<B1>>, <<A1InCriminal, B1, B2, B3>>}>>

\* what a cross-link query of each index can return (k = 3)
LinkResponses ==
    <<{<<>>, <<X1, PlainMatch("a3", 7)>>},
      {<<>>, <<PlainMatch("b1", 7)>>}>>

\* replies of the expansion call: a failure, or one numbered variation
ChatExpansionReplies == {Failed, Ok(<<"1", ".", " ", "b">>)}

\* ranking replies: two indices, no index, an index out of range
ChatRankReplies ==
    {Failed, Ok(<<"5", ",", " ", "0">>), Ok(<<"n", "o", "n", "e">>), Ok(<<"1", "2">>)}

\* completion texts of the final call
Answers == {<<>>, <<"Article 21 protects life and personal liberty.">>}

Init == InitIdle /\ NotAlone

Next ==
    \/ \E q \in Questions : AnswerQuestion(q)
    \/ MQR_Begin(ChatExpansionReplies)
    \/ MQR_Embed
    \/ MQR_Query(CorpusResponses)
    \/ AQ_Retrieved
    \/ XL_Begin
    \/ XL_Chunk
    \/ XL_Embed
    \/ XL_Query(LinkResponses)
    \/ AQ_Rerank(ChatRankReplies)
    \/ AQ_Synthesize(Answers)

Spec == Init /\ [][Next]_vars

-----------------------------------------------------------------------------
(* multi_query_retrieve called alone, over arbitrary index responses. *)

DocIds == {"d1", "d2"}

\* every response of at most MaxMatches matches over DocIds and Scores
RichLists ==
    SeqsUpTo({PlainMatch(id, sc) : id \in DocIds, sc \in Scores}, MaxMatches)

RichResponses == [i \in 1..Len(IndexNames) |-> RichLists]

InitRetrieve == InitIdle /\ NotAlone

NextRetrieve ==
    \/ \E q \in Questions : CallMultiQueryRetrieve(q)
    \/ MQR_Begin(ExpansionReplies)
    \/ MQR_Embed
    \/ MQR_Query(RichResponses)

SpecRetrieve == InitRetrieve /\ [][NextRetrieve]_vars

-----------------------------------------------------------------------------
(* rerank_chunks called alone (evaluate.py), over any pool, top_k and reply. *)

PoolIds == <<"d1", "d2", "d3", "d4", "d5", "d6", "d7", "d8">>

\* the pools of n chunks: distinct ids, any scores
PoolsOf(n) ==
    {[i \in 1..n |-> Tagged(PlainMatch(PoolIds[i], sc[i]), S_constitution)] :
        sc \in [1..n -> Scores]}

Pools == UNION {PoolsOf(n) : n \in 0..MaxPool}

\* the characters of a ranking reply: indices, a number out of range, a
\* separator and a letter
RankChars == {"0", "1", "2", "9", ",", "a"}

RankReplies == {Failed} \cup {Ok(c) : c \in SeqsUpTo(RankChars, MaxReplyLen)}

InitRerank ==
    /\ InitIdle
    /\ rr_in \in [chunks : Pools, top_k : 0..MaxTopK, reply : RankReplies]
    /\ rr_out = <<>>
    /\ NoContext
    /\ NoExpand
    /\ NoIngest
    /\ NoSanitize
    /\ NoPage

\* top_chunks = rerank_chunks(question, expanded, top_k=...)
RerankAlone ==
    /\ rr_out = <<>>
    /\ rr_out' = <<rerank_chunks(rr_in.chunks, rr_in.top_k, rr_in.reply)>>
    /\ UNCHANGED <<pipelineVars, rr_in, contextVars, expandVars, ingestVars,
                   sanitizeVars, pageVars>>

NextRerank == RerankAlone

SpecRerank == InitRerank /\ [][NextRerank]_vars

-----------------------------------------------------------------------------
(* build_context called alone, over chunk lists and budgets. *)

\* chunks in one list, and the largest budget
MaxCtxChunks == 3
MaxBudget == 160

\* w repeated n times
Rep(w, n) == [i \in 1..(n * Len(w)) |-> w[((i - 1) % Len(w)) + 1]]

CtxChunk(text, source) ==
    [id |-> "d1", score |-> 9,
     metadata |-> [text |-> text, index_source |-> source,
                   schedule |-> NoVal, appendix |-> NoVal, part |-> NoVal]]

\* texts: blank, one letter, 40 and 130 characters in words, 110 without a blank
CtxChunks ==
    { CtxChunk(<<" ", "\n">>, <<>>),
      CtxChunk(<<"a">>, <<>>),
      CtxChunk(<<"a">>, <<S_criminal>>),
      CtxChunk(Rep(<<"w", "o", "r", "d", " ">>, 8), <<S_constitution>>),
      CtxChunk(Rep(<<"l", "o", "n", "g", "e", "r", " ", "w", "o", "r", "d", "s", " ">>, 10),
               <<>>),
      CtxChunk(Rep(<<"x">>, 110), <<S_criminal>>) }

InitContext ==
    /\ InitIdle
    /\ NoRerank
    /\ bc_in \in [chunks : SeqsUpTo(CtxChunks, MaxCtxChunks), max_length : 0..MaxBudget]
    /\ bc_out = <<>>
    /\ NoExpand
    /\ NoIngest
    /\ NoSanitize
    /\ NoPage

\* context = build_context(top_chunks, max_length=...)
BuildContextAlone ==
    /\ bc_out = <<>>
    /\ bc_out' = <<build_context(bc_in.chunks, bc_in.max_length)>>
    /\ UNCHANGED <<pipelineVars, rerankVars, bc_in, expandVars, ingestVars,
                   sanitizeVars, pageVars>>

NextContext == BuildContextAlone

SpecContext == InitContext /\ [][NextContext]_vars

-----------------------------------------------------------------------------
(* generate_alternative_queries called alone, over questions, n and replies. *)

\* the largest n, and the most lines in a reply
MaxVariations == 2
MaxLines == 3

\* lines of a reply: paraphrases plain, numbered and bulleted, the question
\* itself, a blank line
ReplyLines ==
    { <<"b">>, <<"1", ".", " ", "c">>, <<"-", " ", "d">>, <<"q">>, <<" ">> }

\* the reply texts of up to MaxLines lines
ExpandContents ==
    {Join(ls, <<"\n">>) : ls \in SeqsUpTo(ReplyLines, MaxLines)}

ExpandReplies == {Failed} \cup {Ok(c) : c \in ExpandContents}

InitExpand ==
    /\ InitIdle
    /\ NoRerank
    /\ NoContext
    /\ gq_in \in [question : {<<>>, <<" ">>, <<"q">>}, n : 1..MaxVariations,
                   reply : ExpandReplies]
    /\ gq_out = <<>>
    /\ NoIngest
    /\ NoSanitize
    /\ NoPage

\* queries = generate_alternative_queries(question, n)
ExpandAlone ==
    /\ gq_out = <<>>
    /\ \E qs \in GenerateAlternativeQueries(gq_in.question, gq_in.n, gq_in.reply) :
         gq_out' = <<qs>>
    /\ UNCHANGED <<pipelineVars, rerankVars, contextVars, gq_in, ingestVars,
                   sanitizeVars, pageVars>>

NextExpand == ExpandAlone

SpecExpand == InitExpand /\ [][NextExpand]_vars

-----------------------------------------------------------------------------
(* expand_with_links called alone (evaluate.py), over lists of matches. *)

\* matches in one input list
MaxLinkChunks == 2

S_III == <<" ", "I", "I", "I", " ">>

\* input matches: two seeds; no seed (a number, a string too short, a string
\* too short once trimmed); one seed
L1 == Tagged(Match("a1", 7, T_law, StrVal(S_VII), NoVal, StrVal(S_III)), S_constitution)

L2 == Tagged(Match("a2", 9, T_law, NumVal, StrVal(<<"I", "V">>),
                   StrVal(<<" ", "V", " ", " ">>)), S_criminal)

L3 == Tagged(Match("a3", 7, T_law, NoVal, StrVal(S_VII), NoVal), S_constitution)

LinkChunks == {L1, L2, L3}

\* the input lists: as multi_query_retrieve returns them, no id twice
LinkInputs ==
    {l \in SeqsUpTo(LinkChunks, MaxLinkChunks) :
        \A i, j \in 1..Len(l) : l[i].id = l[j].id => i = j}

\* a match that names an appendix itself
Linked(id, score) == Match(id, score, T_law, NoVal, StrVal(S_VII), NoVal)

\* what a follow-up query of an index can return (k = 3): nothing; a new id;
\* the id of an input match and the new id again, both with higher scores
SeedLists == {<<>>, <<Linked("x1", 7)>>, <<PlainMatch("a1", 9), Linked("x1", 9)>>}

SeedResponses == [i \in 1..Len(IndexNames) |-> SeedLists]

InitLinks == InitIdle /\ NotAlone

NextLinks ==
    \/ \E chunks \in LinkInputs : CallExpandWithLinks(chunks)
    \/ XL_Begin
    \/ XL_Chunk
    \/ XL_Embed
    \/ XL_Query(SeedResponses)

SpecLinks == InitLinks /\ [][NextLinks]_vars

-----------------------------------------------------------------------------
(* ingest.py: document ids and the two batch loops with their retries. *)

chatVars == <<pipelineVars, rerankVars, contextVars, expandVars, sanitizeVars,
              pageVars>>

\* ingest.py lines 23-28
EMBEDDING_BATCH_SIZE == 500
PINECONE_BATCH_SIZE == 100
MAX_RETRIES == 3
RETRY_DELAY == 2

\* hashlib.md5(text.encode()).hexdigest()[:8]: a value fixed by the text
ContentHash(text) == <<"md5", text>>

\* the mutant of generate_doc_id: the run is part of the id
GenerateDocIdPerRun(filename, index, text) ==
    [filename |-> filename, index |-> index, content_hash |-> ContentHash(text),
     run |-> runs]

\* lines 169-174: f"{filename}___{index}___{content_hash}"
generate_doc_id(filename, index, text) ==
    [filename |-> filename, index |-> index, content_hash |-> ContentHash(text)]

\* a file of n chunks
ChunkFile(name, n) == [name |-> name, kind |-> "ok", n |-> n, body |-> name]

\* the text of chunk idx of a file: fixed by the file's content and the place
TextOf(f, idx) == <<f.body, idx>>

\* lines 427-431: the ids of the vectors of the batch at i
BatchIds(f, i, size, total) ==
    {generate_doc_id(f.name, idx, TextOf(f, idx)) : idx \in i..(Min(i + size, total) - 1)}

\* one attempt of a batch call: which loop, the batch, the attempt, whether
\* it succeeded, and the seconds slept after it
Try(op, i, att, ok, wait) ==
    [op |-> op, i |-> i, attempt |-> att, ok |-> ok, wait |-> wait]

\* the mutant of FileFailed: what ingest_json raised leaves main
FileFailedAborts ==
    /\ failed_files' = Append(failed_files, files[fi].name)
    /\ ipc' = "idle"
    /\ iresult' = "raised"
    /\ UNCHANGED <<fi, success_count>>

\* lines 565-567: main catches what ingest_json raised and goes on
FileFailed ==
    /\ failed_files' = Append(failed_files, files[fi].name)
    /\ fi' = fi + 1
    /\ ipc' = "file"
    /\ UNCHANGED <<success_count, iresult>>

\* lines 563-564: ingest_json returned
FileSucceeded ==
    /\ success_count' = success_count + 1
    /\ fi' = fi + 1
    /\ ipc' = "file"
    /\ UNCHANGED <<failed_files, iresult>>

\* lines 406 and 447: raise, out of the batch function
BatchRaise ==
    IF ientry = "main"
    THEN FileFailed
    ELSE /\ ipc' = "idle"
         /\ iresult' = "raised"
         /\ UNCHANGED <<fi, success_count, failed_files>>

\* the mutant of RetryAllowed: one attempt more
RetryAllowedOnceMore(att) == att < MAX_RETRIES

\* lines 399 and 440: if attempt < MAX_RETRIES - 1
RetryAllowed(att) == att < MAX_RETRIES - 1

\* lines 400 and 441: wait_time = RETRY_DELAY * (attempt + 1)
WaitTime(att) == RETRY_DELAY * (att + 1)

\* line 387: texts[i:i+batch_size], each text written as its place in texts
BatchTexts(i, size, n) == [k \in 1..(Min(i + size, n) - i) |-> i + k - 1]

\* the embedding of the text at place p of the list: fixed by the text
Embedding(p) == <<"vec", p>>

\* embeddings.embed_documents(batch_texts): one vector per text, same order
EmbedDocuments(batch_texts) ==
    [k \in 1..Len(batch_texts) |-> Embedding(batch_texts[k])]

\* the mutant of AfterFailedAttempt: what the failed request had produced
\* so far is kept
AfterFailedAttemptKeepsPart(embs, batch_embeddings) ==
    embs \o SubSeq(batch_embeddings, 1, 1)

\* lines 394-397: embed_documents raised, so extend was not reached
AfterFailedAttempt(embs, batch_embeddings) == embs

\* lines 423-431: the vectors of the batch at i, as (id, values) with
\* idx = i + j
Vectors(f, i, size, embs) ==
    LET batch_embeddings == SubSeq(embs, i + 1, Min(i + size, Len(embs)))
    IN  [j \in 1..Len(batch_embeddings) |->
            [id |-> generate_doc_id(f.name, i + j - 1, TextOf(f, i + j - 1)),
             values |-> batch_embeddings[j]]]

\* embed_documents_in_batches(texts, embeddings, batch_size) called alone
CallEmbedBatches(n, size) ==
    /\ ipc = "idle"
    /\ ipc' = "embed"
    /\ ientry' = "embed_documents_in_batches"
    /\ iresult' = "none"
    /\ n_texts' = n
    /\ batch_size' = size
    /\ bi' = 0
    /\ attempt' = 0
    /\ all_embeddings' = <<>>
    /\ tries' = <<>>
    /\ UNCHANGED <<data_dir, cur, mainVars, indexVars, store, chatVars>>

\* upsert_to_pinecone(index, embeddings, metadatas, filename, batch_size)
\* called alone, with the chunks of file f
CallUpsert(f, size) ==
    /\ ipc = "idle"
    /\ ipc' = "upsert"
    /\ ientry' = "upsert_to_pinecone"
    /\ iresult' = "none"
    /\ cur' = f
    /\ n_texts' = f.n
    /\ batch_size' = size
    /\ bi' = 0
    /\ attempt' = 0
    /\ tries' = <<>>
    /\ UNCHANGED <<data_dir, mainVars, indexVars, all_embeddings, store, chatVars>>

\* lines 386-408: one attempt to embed the batch at i, or the loop ends
EmbedBatch ==
    /\ ipc = "embed"
    /\ IF bi >= n_texts
       THEN /\ IF ientry = "main"
               THEN /\ ipc' = "upsert"
                    /\ n_texts' = Len(all_embeddings)
                    /\ batch_size' = PINECONE_BATCH_SIZE
                    /\ iresult' = iresult
               ELSE /\ ipc' = "idle"
                    /\ iresult' = "returned"
                    /\ UNCHANGED <<n_texts, batch_size>>
            /\ bi' = 0
            /\ attempt' = 0
            /\ UNCHANGED <<all_embeddings, tries, fi, success_count, failed_files>>
       ELSE /\ \E ok \in BOOLEAN :
                 IF ok
                 THEN /\ all_embeddings' = all_embeddings
                            \o EmbedDocuments(BatchTexts(bi, batch_size, n_texts))
                      /\ bi' = bi + batch_size
                      /\ attempt' = 0
                      /\ tries' = Append(tries, Try("embed", bi, attempt, TRUE, 0))
                      /\ UNCHANGED <<ipc, iresult, fi, success_count, failed_files>>
                 ELSE IF RetryAllowed(attempt)
                 THEN /\ attempt' = attempt + 1
                      /\ tries' = Append(tries,
                            Try("embed", bi, attempt, FALSE, WaitTime(attempt)))
                      /\ all_embeddings' = AfterFailedAttempt(all_embeddings,
                            EmbedDocuments(BatchTexts(bi, batch_size, n_texts)))
                      /\ UNCHANGED <<ipc, iresult, bi, fi, success_count,
                                     failed_files>>
                 ELSE /\ BatchRaise
                      /\ tries' = Append(tries, Try("embed", bi, attempt, FALSE, 0))
                      /\ all_embeddings' = AfterFailedAttempt(all_embeddings,
                            EmbedDocuments(BatchTexts(bi, batch_size, n_texts)))
                      /\ UNCHANGED <<bi, attempt>>
            /\ UNCHANGED <<n_texts, batch_size>>
    /\ UNCHANGED <<ientry, data_dir, cur, dry_run, files, runs, attempted,
                   ingested, timed_out, history, indexVars, store, chatVars>>

\* the mutant of FailedUpsert: the vectors of the file are taken out of the
\* index when a request fails
FailedUpsertRollsBack(st, vectors) ==
    {{v \in st : v.filename \notin {w.filename : w \in vectors}}}

\* lines 437-447: what the index can hold after index.upsert raised: the
\* request was applied or it was not; nothing is deleted
FailedUpsert(st, vectors) == {st, st \cup vectors}

\* lines 421-447: one attempt to upsert the batch at i, or the loop ends; a
\* request that failed may or may not have reached the index
UpsertBatch ==
    /\ ipc = "upsert"
    /\ IF bi >= n_texts
       THEN /\ IF ientry = "main"
               THEN /\ FileSucceeded
                    /\ ingested' = ingested \cup {cur.name}
               ELSE /\ ipc' = "idle"
                    /\ iresult' = "returned"
                    /\ UNCHANGED <<fi, success_count, failed_files, ingested>>
            /\ UNCHANGED <<bi, attempt, tries, store>>
       ELSE /\ LET vectors == BatchIds(cur, bi, batch_size, n_texts)
               IN  \E ok \in BOOLEAN :
                     IF ok
                     THEN /\ store' = store \cup vectors
                          /\ bi' = bi + batch_size
                          /\ attempt' = 0
                          /\ tries' = Append(tries, Try("upsert", bi, attempt, TRUE, 0))
                          /\ UNCHANGED <<ipc, iresult, fi, success_count, failed_files>>
                     ELSE /\ store' \in FailedUpsert(store, vectors)
                          /\ IF RetryAllowed(attempt)
                             THEN /\ attempt' = attempt + 1
                                  /\ tries' = Append(tries,
                                        Try("upsert", bi, attempt, FALSE, WaitTime(attempt)))
                                  /\ UNCHANGED <<ipc, iresult, bi, fi, success_count,
                                                 failed_files>>
                             ELSE /\ BatchRaise
                                  /\ tries' = Append(tries,
                                        Try("upsert", bi, attempt, FALSE, 0))
                                  /\ UNCHANGED <<bi, attempt>>
            /\ UNCHANGED ingested
    /\ UNCHANGED <<ientry, data_dir, cur, dry_run, files, runs, attempted,
                   timed_out, history, indexVars, n_texts, batch_size,
                   all_embeddings, chatVars>>

-----------------------------------------------------------------------------
(* ingest.py: main, ingest_json and create_or_get_index. *)

\* create_or_get_index: max_wait (line 342) and the sleep of one poll (line 370)
MAX_WAIT == 60
POLL_SLEEP == 2

\* lines 512: embed_documents_in_batches(all_texts, embeddings)
StartEmbedding ==
    /\ ipc' = "embed"
    /\ n_texts' = cur.n
    /\ batch_size' = EMBEDDING_BATCH_SIZE
    /\ bi' = 0
    /\ attempt' = 0
    /\ all_embeddings' = <<>>

\* main(dry_run), lines 523-558: the configuration, the clients, the listing
\* of the data directory (os.listdir gives the names in any order)
Main(d) ==
    /\ ipc = "idle"
    /\ ientry' = "main"
    /\ runs' = runs + 1
    /\ dry_run' = d
    /\ fi' = 1
    /\ success_count' = 0
    /\ failed_files' = <<>>
    /\ attempted' = <<>>
    /\ ingested' = {}
    /\ timed_out' = FALSE
    /\ cur' = NoFile
    /\ tries' = <<>>
    /\ \/ /\ iresult' = "raised"
          /\ ipc' = "idle"
          /\ files' = <<>>
       \/ /\ files' \in Orderings(data_dir)
          /\ IF data_dir = {}
             THEN iresult' = "returned" /\ ipc' = "idle"
             ELSE iresult' = "none" /\ ipc' = "file"
    /\ UNCHANGED <<data_dir, history, indexVars, n_texts, batch_size, bi, attempt,
                   all_embeddings, store, chatVars>>

\* the locals of ingest_json, gone when it has returned or raised
NoFrame ==
    /\ elapsed' = 0
    /\ n_texts' = 0
    /\ batch_size' = 1
    /\ bi' = 0
    /\ attempt' = 0
    /\ all_embeddings' = <<>>

\* lines 560-577 and 459-486: the next file is loaded and normalized, or the
\* loop ends and the tally is logged
NextFile ==
    /\ ipc = "file"
    /\ NoFrame
    /\ IF fi > Len(files)
       THEN /\ ipc' = "idle"
            /\ iresult' = "returned"
            /\ cur' = NoFile
            /\ history' = Append(history,
                  [files |-> files, dry_run |-> dry_run, ingested |-> ingested,
                   store |-> store])
            /\ UNCHANGED <<fi, success_count, failed_files, attempted, tries>>
       ELSE /\ cur' = files[fi]
            /\ attempted' = Append(attempted, files[fi].name)
            /\ tries' = <<>>
            /\ history' = history
            /\ IF files[fi].kind = "invalid"
               THEN FileFailed
               ELSE IF files[fi].kind = "empty" \/ dry_run
               THEN FileSucceeded
               ELSE /\ ipc' = "sample"
                    /\ UNCHANGED <<fi, success_count, failed_files, iresult>>
    /\ UNCHANGED <<ientry, data_dir, dry_run, files, runs, ingested, timed_out,
                   index_exists, ready_seen, store, chatVars>>

\* lines 489-490: sample_vec = embeddings.embed_query(docs[0]["text"])
SampleEmbedding ==
    /\ ipc = "sample"
    /\ \E ok \in BOOLEAN :
         IF ok
         THEN ipc' = "list" /\ UNCHANGED <<fi, success_count, failed_files, iresult>>
         ELSE FileFailed
    /\ UNCHANGED <<ientry, data_dir, cur, dry_run, files, runs, attempted,
                   ingested, timed_out, history, indexVars, batchVars, store,
                   chatVars>>

\* lines 347-349 and 373-376: an index that is listed is used as it is
GetIndex ==
    /\ ipc = "list"
    /\ \E ok \in BOOLEAN :
         IF ~ok
         THEN FileFailed /\ UNCHANGED batchVars
         ELSE IF index_exists
         THEN /\ StartEmbedding
              /\ UNCHANGED <<fi, success_count, failed_files, iresult, tries>>
         ELSE /\ ipc' = "create"
              /\ UNCHANGED <<fi, success_count, failed_files, iresult, batchVars>>
    /\ UNCHANGED <<ientry, data_dir, cur, dry_run, files, runs, attempted,
                   ingested, timed_out, history, indexVars, store, chatVars>>

\* lines 350-360: pc.create_index(...), start_time = time.time()
CreateIndex ==
    /\ ipc = "create"
    /\ \E ok \in BOOLEAN :
         IF ok
         THEN /\ index_exists' = TRUE
              /\ elapsed' = 0
              /\ ipc' = "poll"
              /\ UNCHANGED <<fi, success_count, failed_files, iresult>>
         ELSE /\ FileFailed
              /\ UNCHANGED <<index_exists, elapsed>>
    /\ UNCHANGED <<ientry, data_dir, cur, dry_run, files, runs, attempted,
                   ingested, timed_out, history, ready_seen, batchVars, store,
                   chatVars>>

\* lines 361-372: one round of the polling loop, or its else branch; the
\* time the calls themselves take is left out of elapsed
PollIndex ==
    /\ ipc = "poll"
    /\ IF elapsed < MAX_WAIT
       THEN \E status \in {"ready", "not_ready", "error"} :
              IF status = "ready"
              THEN /\ ready_seen' = TRUE
                   /\ elapsed' = 0
                   /\ StartEmbedding
                   /\ UNCHANGED <<timed_out, fi, success_count,
                                  failed_files, iresult, tries>>
              ELSE /\ elapsed' = elapsed + POLL_SLEEP
                   /\ UNCHANGED <<ipc, ready_seen, timed_out, fi, success_count,
                                  failed_files, iresult, batchVars>>
       ELSE /\ timed_out' = TRUE
            /\ FileFailed
            /\ UNCHANGED <<elapsed, ready_seen, batchVars>>
    /\ UNCHANGED <<ientry, data_dir, cur, dry_run, files, runs, attempted,
                   ingested, history, index_exists, store, chatVars>>

-----------------------------------------------------------------------------
(* Ingestion runs: main() run up to MaxRuns times over a data directory. *)

\* runs of main, and files in the data directory
MaxRuns == 2
MaxFiles == 2

\* the files: one that fails validation, one without documents, one of a
\* single chunk, one of two chunks
FilePool ==
    { [name |-> "bad.json", kind |-> "invalid", n |-> 0, body |-> "bad.json"],
      [name |-> "none.json", kind |-> "empty", n |-> 0, body |-> "none.json"],
      ChunkFile("a.json", 1),
      ChunkFile("b.json", 2) }

\* the data directory is any set of files; the index may exist already, and
\* one that does has reported ready to the run that created it
InitIngest ==
    /\ InitIdle
    /\ NoRerank
    /\ NoContext
    /\ NoExpand
    /\ NoSanitize
    /\ NoPage
    /\ IngestIdle
    /\ data_dir \in {d \in SUBSET FilePool : Cardinality(d) <= MaxFiles}
    /\ index_exists \in BOOLEAN
    /\ ready_seen = index_exists

NextIngest ==
    \/ \E d \in BOOLEAN : runs < MaxRuns /\ Main(d)
    \/ NextFile
    \/ SampleEmbedding
    \/ GetIndex
    \/ CreateIndex
    \/ PollIndex
    \/ EmbedBatch
    \/ UpsertBatch

SpecIngest == InitIngest /\ [][NextIngest]_vars

-----------------------------------------------------------------------------
(* Ingestion runs over one file of two upsert batches. *)

\* 101 chunks: one embedding batch, upsert batches of 100 and of 1
LargeFile == ChunkFile("c.json", PINECONE_BATCH_SIZE + 1)

InitLarge ==
    /\ InitIdle
    /\ NoRerank
    /\ NoContext
    /\ NoExpand
    /\ NoSanitize
    /\ NoPage
    /\ IngestIdle
    /\ data_dir = {LargeFile}
    /\ index_exists \in BOOLEAN
    /\ ready_seen = index_exists

SpecLarge == InitLarge /\ [][NextIngest]_vars

-----------------------------------------------------------------------------
(* The two batch functions called alone, over list lengths and batch sizes. *)

\* the longest list and the largest batch_size
MaxTexts == 3
MaxBatchSize == 2

InitBatches == InitIdle /\ NotAlone

NextBatches ==
    \/ \E n \in 0..MaxTexts, size \in 1..MaxBatchSize : CallEmbedBatches(n, size)
    \/ \E n \in 0..MaxTexts, size \in 1..MaxBatchSize :
          CallUpsert(ChunkFile("a.json", n), size)
    \/ EmbedBatch
    \/ UpsertBatch

SpecBatches == InitBatches /\ [][NextBatches]_vars

-----------------------------------------------------------------------------
(* Claims about multi_query_retrieve, checked under SpecRetrieve. *)

\* multi_query_retrieve, called from the top level, has returned
RetrieveReturned ==
    pc = "idle" /\ entry = "multi_query_retrieve" /\ result.kind = "return"

\* C1: the list multi_query_retrieve returns holds each document id at most
\* once, and the entry of an id carries the highest score among all the matches
\* the index queries of the call returned for that id.
C1_DedupKeepsHighestScore ==
    RetrieveReturned =>
        LET out == result.value
        IN  /\ \A i, j \in 1..Len(out) : i # j => out[i].id # out[j].id
            /\ \A i \in 1..Len(out) :
                 /\ \E p \in returned : p[1] = out[i].id /\ p[2] = out[i].score
                 /\ \A p \in returned : p[1] = out[i].id => p[2] <= out[i].score

\* C1 witness: an id came back with both scores and the returned list holds it
\* with the higher one.
C1_Witness ==
    /\ RetrieveReturned
    /\ "variant_succeeded" \in calls
    /\ \E id \in DocIds :
         /\ {7, 9} \subseteq {p[2] : p \in {r \in returned : r[1] = id}}
         /\ \E i \in 1..Len(result.value) :
              result.value[i].id = id /\ result.value[i].score = 9

\* C4 as claimed: when no variant succeeds (for every variant the embedding
\* call or a query against some index failed), the returned list is empty.
C4_NoVariantSucceedsGivesEmpty ==
    (RetrieveReturned /\ question # <<>> /\ "variant_succeeded" \notin calls)
        => result.value = <<>>

\* C4 amended: multi_query_retrieve never raises; it returns the empty list
\* when no index query of the call returned (every variant failed at its
\* embedding or at its first index query), and exactly when no index query
\* returned a match: the matches an index returned before a later index of the
\* same variant failed are kept.
C4_NoIndexResponseGivesEmpty ==
    /\ entry = "multi_query_retrieve" => result.kind # "raise"
    /\ RetrieveReturned =>
         /\ "index_response" \notin calls => result.value = <<>>
         /\ result.value = <<>> <=> returned = {}

\* C4 witness: every variant failed, one of them at an index query, and the
\* empty list came back.
C4_Witness ==
    /\ RetrieveReturned
    /\ "embedding" \in calls
    /\ "index_query" \in calls
    /\ "index_response" \notin calls
    /\ result.value = <<>>

-----------------------------------------------------------------------------
(* Claims about rerank_chunks, checked under SpecRerank. *)

RerankReturned == rr_out # <<>>

\* out is pool sorted by descending score and cut to k: k of the pool's
\* chunks, in descending order of score, none scoring below a chunk left out
IsTopByScore(out, pool, k) ==
    /\ Len(out) = Min(k, Len(pool))
    /\ \A i, j \in 1..Len(out) : i < j => out[i].score >= out[j].score
    /\ \A i, j \in 1..Len(out) : i # j => out[i] # out[j]
    /\ \A i \in 1..Len(out) : out[i] \in Range(pool)
    /\ \A c \in Range(pool) \ Range(out) :
         \A i \in 1..Len(out) : out[i].score >= c.score

\* no number of the reply is an index of the pool
NoValidIndex(content, n) ==
    \A k \in 1..Len(FindAllNumbers(Strip(content))) :
        IntOf(FindAllNumbers(Strip(content))[k]) >= n

\* C5: with more than top_k chunks in the pool and a ranking call that fails,
\* rerank_chunks returns the pool sorted by descending score, cut to top_k.
C5_FailedRankingFallsBackToScore ==
    (RerankReturned /\ Len(rr_in.chunks) > rr_in.top_k /\ ~rr_in.reply.ok)
        => IsTopByScore(rr_out[1].out, rr_in.chunks, rr_in.top_k)

\* C5 witness: the call failed on a pool of three whose best two chunks are the
\* last two; they came back.
C5_Witness ==
    /\ RerankReturned
    /\ ~rr_in.reply.ok
    /\ rr_in.top_k = 2
    /\ Len(rr_in.chunks) = 3
    /\ rr_in.chunks[1].score = 7
    /\ rr_in.chunks[2].score = 9
    /\ rr_in.chunks[3].score = 9
    /\ rr_out[1].out = <<rr_in.chunks[2], rr_in.chunks[3]>>

\* C6 as claimed: a reply from which no valid index can be parsed makes
\* rerank_chunks fall back to the pool sorted by descending score.
C6_BadFormatFallsBackToScore ==
    (RerankReturned /\ Len(rr_in.chunks) > rr_in.top_k /\ rr_in.reply.ok
        /\ NoValidIndex(rr_in.reply.v, Len(rr_in.chunks)))
        => IsTopByScore(rr_out[1].out, rr_in.chunks, rr_in.top_k)

\* C6 amended: with more than top_k chunks in the pool and a reply from which
\* no valid in-range index can be parsed, rerank_chunks returns the first top_k
\* chunks of the pool in pool order, whatever their scores.
C6_BadFormatKeepsPoolOrder ==
    (RerankReturned /\ Len(rr_in.chunks) > rr_in.top_k /\ rr_in.reply.ok
        /\ NoValidIndex(rr_in.reply.v, Len(rr_in.chunks)))
        => rr_out[1].out = Take(rr_in.chunks, rr_in.top_k)

\* C6 witness: a reply with a number out of range and a number glued to a
\* letter; the pool's first two chunks came back though the third scores higher.
C6_Witness ==
    /\ RerankReturned
    /\ rr_in.reply = Ok(<<"9", ",", "a">>)
    /\ rr_in.top_k = 2
    /\ Len(rr_in.chunks) = 3
    /\ rr_in.chunks[1].score = 7
    /\ rr_in.chunks[3].score = 9
    /\ rr_out[1].out = <<rr_in.chunks[1], rr_in.chunks[2]>>

\* C7: a pool of at most top_k chunks is returned unchanged, in the same order,
\* and the completion service is not called.
C7_SmallPoolPassesThrough ==
    (RerankReturned /\ Len(rr_in.chunks) <= rr_in.top_k)
        => rr_out[1].out = rr_in.chunks /\ ~rr_out[1].called

\* C7 witness: a pool of exactly top_k chunks, not in score order, came back
\* as it was.
C7_Witness ==
    /\ RerankReturned
    /\ Len(rr_in.chunks) = rr_in.top_k
    /\ Len(rr_in.chunks) >= 2
    /\ rr_in.chunks[1].score < rr_in.chunks[2].score
    /\ rr_out[1].out = rr_in.chunks
    /\ ~rr_out[1].called

-----------------------------------------------------------------------------
(* Claims about build_context, checked under SpecContext. *)

ContextReturned == bc_out # <<>>

\* the length of the truncation suffix "..."
SUFFIX_LEN == 3

\* C2: the string build_context returns, blank-line separators included, is
\* never longer than max_length plus one truncation suffix.
C2_ContextWithinBudget ==
    ContextReturned => Len(bc_out[1]) <= bc_in.max_length + SUFFIX_LEN

-----------------------------------------------------------------------------
(* Claims about answer_question, checked under Spec. *)

\* answer_question has returned or raised
AnswerEnded == pc = "idle" /\ entry = "answer_question"

\* empty, or nothing but whitespace
WhitespaceOnly(q) == \A i \in 1..Len(q) : q[i] \in {" ", "\n", "\t"}

\* the strings answer_question can give back
AnswerStrings ==
    {MsgInvalid, MsgNotFound, MsgNoContent, <<ERROR_PREFIX>> \o ServiceError}
        \cup Answers

\* the requests that go to the chat-completion service
CompletionRequests == {"expansion", "rerank", "synthesis"}

\* what is left of the loop over the indexes and of the loop around it, for
\* a loop body at position i of n and the index loop at position ix
LoopLeft(n, i, inQuery) ==
    (n + 1 - i) * (Len(IndexNames) + 3)
        + (IF inQuery THEN Len(IndexNames) + 1 - ix ELSE Len(IndexNames) + 2)

\* an upper bound of LoopLeft for the seeds of one chunk, plus one
SeedsSpan == (MAX_SEEDS + 1) * (Len(IndexNames) + 3)

\* the positions of a running call: each has its step in Next, whose only
\* condition is the position, and whose service calls may fail or succeed
Running ==
    {"mqr", "mqr_embed", "mqr_query", "aq_retrieved", "xl", "xl_chunk",
     "xl_embed", "xl_query", "aq_expanded", "aq_reranked"}

\* the steps a running call can still take: it decreases with every step
StepsLeft ==
    CASE pc = "idle" -> 0
      [] pc = "aq_reranked" -> 1
      [] pc = "aq_expanded" -> 2
      [] pc = "xl_chunk" ->
            3 + (Len(candidate_chunks) + 1 - ci) * (SeedsSpan + 1) + SeedsSpan
      [] pc \in {"xl_embed", "xl_query"} ->
            3 + (Len(candidate_chunks) + 1 - ci) * (SeedsSpan + 1)
              + LoopLeft(Len(Take(related_keys, MAX_SEEDS)), si, pc = "xl_query")
      [] pc = "xl" -> 1000
      [] pc = "aq_retrieved" -> 1001
      [] pc \in {"mqr_embed", "mqr_query"} ->
            1002 + LoopLeft(Len(queries), qi, pc = "mqr_query")
      [] pc = "mqr" -> 2000

\* C3: whatever calls fail, answer_question ends, and it ends by returning a
\* string, never by raising; when the final completion call fails the string
\* returned starts with the error prefix.  That it ends: a running call is
\* always at a position that has a step, and every step brings it nearer to
\* its return.
C3_AnswerAlwaysReturnsAString ==
    /\ [](entry = "answer_question" =>
            /\ result.kind # "raise"
            /\ pc = "idle" =>
                 /\ result.kind = "return"
                 /\ result.value \in AnswerStrings
                 /\ "synthesis_failed" \in calls =>
                        Head(result.value) = ERROR_PREFIX)
    /\ [](pc # "idle" => pc \in Running /\ StepsLeft > 0)
    /\ [][pc # "idle" => StepsLeft' < StepsLeft]_vars

\* C3 witness: the rerank call and the final completion call both failed and
\* the error string came back.
C3_Witness ==
    /\ AnswerEnded
    /\ {"rerank_failed", "synthesis_failed"} \subseteq calls
    /\ result = Ret(<<ERROR_PREFIX>> \o ServiceError)

\* C8 as claimed: when the retriever returns the empty list for a non-empty
\* question, the fixed message comes back and no request went to the
\* completion service during the call.
C8_NothingFoundWithoutCompletionCall ==
    (AnswerEnded /\ ~WhitespaceOnly(question) /\ candidate_chunks = <<>>)
        => /\ result = Ret(MsgNotFound)
           /\ calls \cap CompletionRequests = {}

\* C8 amended: when the retriever returns the empty list for a non-empty
\* question, the fixed message comes back; the one request to the completion
\* service during the call is the retriever's own query expansion: no rerank,
\* no synthesis and no cross-link request is made.
C8_NothingFoundOnlyExpansionCall ==
    (AnswerEnded /\ ~WhitespaceOnly(question) /\ candidate_chunks = <<>>)
        => /\ result = Ret(MsgNotFound)
           /\ calls \cap CompletionRequests = {"expansion"}
           /\ calls \cap {"link_embedding", "link_query"} = {}

\* C8 witness: the index queries of the call returned, with no match, and the
\* fixed message came back.
C8_Witness ==
    /\ AnswerEnded
    /\ ~WhitespaceOnly(question)
    /\ candidate_chunks = <<>>
    /\ "index_response" \in calls
    /\ "variant_succeeded" \in calls
    /\ result = Ret(MsgNotFound)

\* C9: for an empty or whitespace-only question answer_question returns the
\* fixed message at once: no stage runs and no service is called.
C9_BlankQuestionRejected ==
    (entry = "answer_question" /\ WhitespaceOnly(question))
        => /\ pc = "idle"
           /\ result = Ret(MsgInvalid)
           /\ calls = {}

\* C9 witness: a whitespace-only question, asked after an answered one.
C9_Witness ==
    /\ AnswerEnded
    /\ question = <<" ", "\n">>
    /\ chat_history # <<>>
    /\ result = Ret(MsgInvalid)
    /\ calls = {}

\* C10: the transcript is the list of (question, answer) pairs of the calls
\* that returned an answer, in call order: a user turn, then an assistant turn.
C10_TranscriptIsPairs ==
    /\ Len(chat_history) = 2 * Len(log)
    /\ \A k \in 1..Len(log) :
         /\ chat_history[2 * k - 1] = [role |-> "user", content |-> log[k].q]
         /\ chat_history[2 * k] = [role |-> "assistant", content |-> log[k].a]

\* C10 witness: two answered calls with different questions and answers.
C10_Witness ==
    /\ Len(chat_history) = 4
    /\ chat_history[1].content # chat_history[3].content
    /\ chat_history[2].content # chat_history[4].content

\* answer_question has returned the answer of the final completion call
AnswerGiven ==
    /\ AnswerEnded
    /\ result.kind = "return"
    /\ "synthesis" \in calls
    /\ "synthesis_failed" \notin calls

\* C11: after every answer that answer_question returns, the session file
\* holds the whole in-memory transcript, the pair just appended included.
C11_SessionPersistedAfterAnswer ==
    AnswerGiven => session_file = chat_history

-----------------------------------------------------------------------------
(* Claims about generate_alternative_queries, checked under SpecExpand. *)

ExpandReturned == gq_out # <<>>

\* the paraphrases the reply of the generation call holds
Paraphrases ==
    IF gq_in.reply.ok
    THEN Range(Variations(Split(Strip(gq_in.reply.v), "\n")))
    ELSE {}

\* C12: for a non-empty question, whatever the generation call returns, the
\* list returned holds the original question, and besides it at most n
\* paraphrases of the reply.
C12_ExpansionKeepsQuestion ==
    ExpandReturned /\ gq_in.question # <<>> =>
        /\ \E i \in 1..Len(gq_out[1]) : gq_out[1][i] = gq_in.question
        /\ Len(gq_out[1]) <= gq_in.n + 1
        /\ \A i \in 1..Len(gq_out[1]) :
             gq_out[1][i] = gq_in.question \/ gq_out[1][i] \in Paraphrases

-----------------------------------------------------------------------------
(* Claims about expand_with_links, checked under SpecLinks. *)

\* expand_with_links has returned result.value for the input candidate_chunks
LinksReturned ==
    pc = "idle" /\ entry = "expand_with_links" /\ result.kind = "return"

\* the matches of the responses of the first n service calls, in order
RECURSIVE FoundUpTo(_)
FoundUpTo(n) ==
    IF n = 0 THEN <<>> ELSE FoundUpTo(n - 1) \o links[n].matches

\* the matches the follow-up queries returned, in the order met
Found == FoundUpTo(Len(links))

InputIds == {candidate_chunks[i].id : i \in 1..Len(candidate_chunks)}

\* C13: first occurrence wins in expand_with_links.  Every input match is in
\* the output as it came in; an id the follow-up queries discovered is bound
\* to the first entry met for it, whatever the scores of later ones; no id
\* appears twice.
C13_FirstOccurrenceWins ==
    LinksReturned =>
        LET out == result.value
        IN  /\ \A i \in 1..Len(candidate_chunks) :
                 \E j \in 1..Len(out) : out[j] = candidate_chunks[i]
            /\ \A i, j \in 1..Len(out) : out[i].id = out[j].id => i = j
            /\ \A j \in 1..Len(out) :
                 out[j].id \notin InputIds =>
                    \E k \in 1..Len(Found) :
                       /\ Found[k] = out[j]
                       /\ \A h \in 1..(k - 1) : Found[h].id # out[j].id
            /\ \A k \in 1..Len(Found) :
                 \E j \in 1..Len(out) : out[j].id = Found[k].id

\* C13 witness: a follow-up query returned an input id with a higher score,
\* and a discovered id came back later with a higher score.
C13_Witness ==
    /\ LinksReturned
    /\ \E k \in 1..Len(Found), i \in 1..Len(candidate_chunks) :
         /\ Found[k].id = candidate_chunks[i].id
         /\ Found[k].score > candidate_chunks[i].score
    /\ \E h, k \in 1..Len(Found) :
         /\ h < k
         /\ Found[h].id = Found[k].id
         /\ Found[h].id \notin InputIds
         /\ Found[k].score > Found[h].score

\* the values of the keys schedule, appendix, part of an input match that are
\* strings of trimmed length above 2, in the order of the keys
SeedValuesOf(meta) ==
    LET vals == <<meta.schedule, meta.appendix, meta.part>>
        good(v) == v.t = "str" /\ Len(Strip(v.v)) > 2
    IN  SelectSeq(vals, good)

\* the seed positions of the input: match c, seed s of it
SeedSlots ==
    {sl \in (1..Len(candidate_chunks)) \X (1..3) :
        sl[2] <= Len(SeedValuesOf(candidate_chunks[sl[1]].metadata))}

\* the positions in links of the calls op made for seed slot sl against index
CallsFor(sl, op, index) ==
    {k \in 1..Len(links) :
        /\ links[k].c = sl[1]
        /\ links[k].s = sl[2]
        /\ links[k].op = op
        /\ links[k].index = index}

IndexSet == {IndexNames[i] : i \in 1..Len(IndexNames)}

\* C14 as stated: every seed value of every input match is queried exactly
\* once against every index, and nothing else is queried.
C14_EverySeedQueriedOnEveryIndex ==
    LinksReturned =>
        /\ \A sl \in SeedSlots : \A name \in IndexSet :
             Cardinality(CallsFor(sl, "query", name)) = 1
        /\ \A k \in 1..Len(links) : <<links[k].c, links[k].s>> \in SeedSlots

\* C14: every seed value of every input match (a string of trimmed length
\* above 2 under schedule, appendix or part) is embedded exactly once and the
\* indexes are then queried with it in order, each at most once: an index is
\* queried exactly when the embedding and the queries of the indexes before
\* it succeeded.  Every call is seeded with the value as stored, and values
\* that are absent, not strings or too short cause no call.
C14_SeedQueriedUntilFailure ==
    LinksReturned =>
        /\ \A sl \in SeedSlots :
             /\ Cardinality(CallsFor(sl, "embed", "")) = 1
             /\ \A i \in 1..Len(IndexNames) :
                  LET n == Cardinality(CallsFor(sl, "query", IndexNames[i]))
                      before ==
                          CallsFor(sl, "embed", "") \cup
                          UNION {CallsFor(sl, "query", IndexNames[h]) : h \in 1..(i - 1)}
                  IN  /\ n <= 1
                      /\ n = 1 <=>
                            /\ Cardinality(before) = i
                            /\ \A k \in before : links[k].ok
        /\ \A k \in 1..Len(links) :
             /\ <<links[k].c, links[k].s>> \in SeedSlots
             /\ links[k].seed =
                  SeedValuesOf(candidate_chunks[links[k].c].metadata)[links[k].s].v

\* C14 witness: an input with seeds and with values that are no seeds; one
\* seed was queried on every index, another lost its embedding.
C14_Witness ==
    /\ LinksReturned
    /\ \E i \in 1..Len(candidate_chunks) : candidate_chunks[i] = L2
    /\ \E sl \in SeedSlots :
         \A name \in IndexSet :
            \E k \in CallsFor(sl, "query", name) : links[k].ok
    /\ \E k \in 1..Len(links) : links[k].op = "embed" /\ ~links[k].ok

\* seed slot b comes after seed slot a in the loops of expand_with_links
SlotAfter(a, b) == b[1] > a[1] \/ (b[1] = a[1] /\ b[2] > a[2])

\* C15: a failed embedding or index query for one seed does not stop
\* expand_with_links: every later seed of the same match and every seed of
\* every later match is still taken up (its embedding is requested after the
\* failure), and the function returns and never raises.
C15_FailedSeedDoesNotAbort ==
    /\ entry = "expand_with_links" => result.kind # "raise"
    /\ entry = "expand_with_links" /\ pc = "idle" => result.kind = "return"
    /\ LinksReturned =>
         \A k \in 1..Len(links) :
            ~links[k].ok =>
               \A sl \in SeedSlots :
                  SlotAfter(<<links[k].c, links[k].s>>, sl) =>
                     \E h \in CallsFor(sl, "embed", "") : h > k

\* C15 witness: the first seed of a match failed; the next seed of that match
\* and the seed of the next match were queried with success.
C15_Witness ==
    /\ LinksReturned
    /\ \E k \in 1..Len(links) :
         /\ ~links[k].ok
         /\ links[k].c = 1
         /\ links[k].s = 1
         /\ \E h \in CallsFor(<<1, 2>>, "query", IndexNames[1]) : links[h].ok
         /\ \E h \in CallsFor(<<2, 1>>, "query", IndexNames[1]) : links[h].ok

-----------------------------------------------------------------------------
(* Claims about the batch loops of ingest.py, checked under SpecBatches. *)

\* a batch function called alone is running
BatchRunning == ipc \in {"embed", "upsert"}

\* a batch function called alone has ended
BatchEnded ==
    ipc = "idle" /\ ientry \in {"embed_documents_in_batches", "upsert_to_pinecone"}

\* the batches not yet done, each with its attempts left, and the loop's end
BatchStepsLeft ==
    IF ipc = "idle" THEN 0
    ELSE IF bi >= n_texts THEN 1
    ELSE ((n_texts - bi + batch_size - 1) \div batch_size) * 3 - attempt + 1

\* C20: every embedding batch and every upsert batch is attempted at most
\* three times, with a longer wait after each failure; a success moves on to
\* the next batch; the third failure in a row ends the call with the error,
\* with no attempt after it; and the loops end: every step of a running call
\* brings it nearer to its end.
C20_BoundedRetries ==
    /\ [](\A k \in 1..Len(tries) :
            /\ tries[k].attempt \in 0..2
            /\ k = 1 => tries[k].i = 0 /\ tries[k].attempt = 0
            /\ k > 1 /\ tries[k - 1].ok =>
                 /\ tries[k].i = tries[k - 1].i + batch_size
                 /\ tries[k].attempt = 0
            /\ k > 1 /\ ~tries[k - 1].ok =>
                 /\ tries[k].i = tries[k - 1].i
                 /\ tries[k].attempt = tries[k - 1].attempt + 1
                 /\ tries[k - 1].wait > 0
                 /\ k > 2 /\ ~tries[k - 2].ok => tries[k - 1].wait > tries[k - 2].wait
            /\ ~tries[k].ok /\ tries[k].attempt = 2 =>
                 /\ k = Len(tries)
                 /\ ipc = "idle"
                 /\ iresult = "raised")
    /\ [](BatchEnded /\ iresult = "returned" =>
            /\ tries # <<>> => tries[Len(tries)].ok
            /\ \A i \in 0..(n_texts - 1) :
                 i % batch_size = 0 =>
                    \E k \in 1..Len(tries) : tries[k].i = i /\ tries[k].ok)
    /\ [](BatchRunning => BatchStepsLeft > 0)
    /\ [][BatchRunning => BatchStepsLeft' < BatchStepsLeft]_vars

\* C20 witness: a batch succeeded at its third attempt and the next batch
\* failed three times, which ended the call.
C20_Witness ==
    /\ BatchEnded
    /\ iresult = "raised"
    /\ \E k \in 1..Len(tries) : tries[k].ok /\ tries[k].attempt = 2
    /\ tries[Len(tries)].i > 0
    /\ n_texts > tries[Len(tries)].i + batch_size

-----------------------------------------------------------------------------
(* C16: ingesting a file again gives the same ids. *)

\* the ids in the index that belong to a file
IdsOf(st, name) == {v \in st : v.filename = name}

\* the files that two finished runs of main both ingested in full
IngestedTwice(i, j) == history[i].ingested \cap history[j].ingested

\* C16: when a file whose text did not change is ingested by two runs, the
\* index holds the same ids for it after the later run as after the earlier
\* one, one id for each of its chunks, and the index never holds two ids for
\* the same place of the same file.
C16_ReingestionIdempotent ==
    /\ \A a, b \in store : a.filename = b.filename /\ a.index = b.index => a = b
    /\ \A i, j \in 1..Len(history) :
         i < j =>
           \A name \in IngestedTwice(i, j) :
              /\ IdsOf(history[j].store, name) = IdsOf(history[i].store, name)
              /\ \E k \in 1..Len(history[j].files) :
                   /\ history[j].files[k].name = name
                   /\ Cardinality(IdsOf(history[j].store, name)) = history[j].files[k].n

\* two runs have ended and both ingested the file of two chunks
C16_Witness ==
    /\ Len(history) = 2
    /\ "b.json" \in IngestedTwice(1, 2)
    /\ Cardinality(history[2].store) >= 2

-----------------------------------------------------------------------------
(* C17, C18: the index that did not become ready. *)

\* the upserts issued for the file at hand
Upserts == {k \in 1..Len(tries) : tries[k].op = "upsert"}

\* C17: no upsert is issued to the index before the index has reported
\* ready (to the run that created it, or before the runs when it existed
\* already).
C17_NoUpsertBeforeReady == Upserts # {} => ready_seen

\* C18: once the wait for the index has timed out in a run, no later file of
\* that run is embedded or upserted.
C18_TimeoutAbortsIngestion == timed_out => tries = <<>>

-----------------------------------------------------------------------------
(* C19: a file that fails does not end the run. *)

\* the names of the first n files found
NamesUpTo(n) == [k \in 1..n |-> files[k].name]

\* main has gone through the files it found
RunEnded == ientry = "main" /\ ipc = "idle" /\ files # <<>>

\* C19: a run of main that found files does not end by an error of a file:
\* it attempts every file found once, in the order found, and the tally at
\* its end has success_count + len(failed_files) = len(files); while the run
\* is under way the tally counts the files done so far.
C19_BatchContinuesAfterFailure ==
    /\ RunEnded =>
         /\ iresult = "returned"
         /\ attempted = NamesUpTo(Len(files))
         /\ success_count + Len(failed_files) = Len(files)
    /\ (ientry = "main" /\ ipc # "idle") =>
         /\ success_count + Len(failed_files) = fi - 1
         /\ attempted \in {NamesUpTo(fi - 1), NamesUpTo(Min(fi, Len(files)))}

\* a run has ended in which the first of two files failed and the second
\* was ingested
C19_Witness ==
    /\ RunEnded
    /\ Len(files) = 2
    /\ failed_files = <<files[1].name>>
    /\ ingested = {files[2].name}
    /\ success_count = 1

-----------------------------------------------------------------------------
(* C23: equal scores in multi_query_retrieve. *)

\* the index a returned entry is tagged with
SourceTag(m) == m.metadata.index_source

\* C23: in multi_query_retrieve the entry held for an id (the match with its
\* index_source tag) is replaced only by a match of strictly higher score, so
\* of the matches that arrive with equal scores the first one seen stays;
\* the entry returned for an id is a match an index query returned, tagged
\* with the index it came from.
C23_TieKeepsFirstSeen ==
    /\ [][(pc = "mqr_query" /\ pc' = "mqr_query") =>
            \A i \in 1..Len(expanded_matches) :
               /\ i <= Len(expanded_matches')
               /\ expanded_matches'[i].id = expanded_matches[i].id
               /\ \/ expanded_matches'[i] = expanded_matches[i]
                  \/ expanded_matches'[i].score > expanded_matches[i].score]_vars
    /\ [](RetrieveReturned =>
            \A i \in 1..Len(result.value) :
               <<result.value[i].id, result.value[i].score,
                 SourceTag(result.value[i])[1]>> \in returned)

\* an id came back from both indexes with the same score, its highest, and
\* the entry returned carries the tag of the second index: it was seen there
\* first and the later match of the first index did not replace it
C23_Witness ==
    /\ RetrieveReturned
    /\ \E id \in DocIds :
         /\ {<<id, 9, S_constitution>>, <<id, 9, S_criminal>>} \subseteq returned
         /\ \E i \in 1..Len(result.value) :
              /\ result.value[i].id = id
              /\ result.value[i].score = 9
              /\ SourceTag(result.value[i]) = <<S_criminal>>

-----------------------------------------------------------------------------
(* C24: what a ranking reply selects. *)

\* the integers of the reply, in the order they appear
Tokens(content) ==
    LET numbers == FindAllNumbers(Strip(content))
    IN  [k \in 1..Len(numbers) |-> IntOf(numbers[k])]

\* the places of the reply's integers that are indices of the pool and did
\* not appear before
FirstValid(toks, n) ==
    {k \in 1..Len(toks) :
        /\ toks[k] < n
        /\ \A j \in 1..(k - 1) : toks[j] # toks[k]}

\* the j-th smallest element of a set of integers
Nth(S, j) == CHOOSE x \in S : Cardinality({y \in S : y < x}) = j - 1

\* C24: with more than top_k chunks in the pool and a ranking reply,
\* rerank_chunks returns exactly top_k chunks: first the chunks at the distinct
\* in-range indices of the reply, in the order they appear, then, when the
\* reply names fewer than top_k, the chunks not named, in pool order.
C24_ParsedThenPadded ==
    (RerankReturned /\ Len(rr_in.chunks) > rr_in.top_k /\ rr_in.reply.ok) =>
        LET chunks == rr_in.chunks
            top_k == rr_in.top_k
            out == rr_out[1].out
            toks == Tokens(rr_in.reply.v)
            named == FirstValid(toks, Len(chunks))
            parsed == Min(Cardinality(named), top_k)
            untaken == (0..(Len(chunks) - 1)) \ {toks[k] : k \in named}
        IN  /\ Len(out) = top_k
            /\ \A j \in 1..parsed : out[j] = chunks[toks[Nth(named, j)] + 1]
            /\ \A j \in (parsed + 1)..top_k :
                 out[j] = chunks[Nth(untaken, j - parsed) + 1]

\* the reply "1,1" on a pool of three with top_k = 2: chunk 1 once, then the
\* first chunk not named
C24_Witness ==
    /\ RerankReturned
    /\ rr_in.reply = Ok(<<"1", ",", "1">>)
    /\ rr_in.top_k = 2
    /\ Len(rr_in.chunks) = 3
    /\ rr_out[1].out = <<rr_in.chunks[2], rr_in.chunks[1]>>

-----------------------------------------------------------------------------
(* C25: where build_context stops. *)

\* the places of the chunks whose text is not empty or whitespace only
WithText(chunks) ==
    {i \in 1..Len(chunks) : ~WhitespaceOnly(chunks[i].metadata.text)}

\* the summed length of the first j snippets of the chunks with text
RECURSIVE SnippetsLength(_, _)
SnippetsLength(chunks, j) ==
    IF j = 0 THEN 0
    ELSE SnippetsLength(chunks, j - 1) + Len(Snippet(chunks[Nth(WithText(chunks), j)]))

\* C25: build_context gives the snippets of the chunks with text in input
\* order, joined by blank lines, up to the first snippet with which the summed
\* snippet length would exceed max_length; that snippet comes last, cut to the
\* remaining budget at its last blank and ended by "...", when more than 100
\* characters remain, and is left out otherwise; nothing after it is included,
\* and chunks without text give the empty string.
C25_StopsAtFirstOverflow ==
    ContextReturned =>
        LET chunks == bc_in.chunks
            max_length == bc_in.max_length
            n == Cardinality(WithText(chunks))
            snippet(j) == Snippet(chunks[Nth(WithText(chunks), j)])
            kept == Cardinality({j \in 1..n : SnippetsLength(chunks, j) <= max_length})
            remaining == max_length - SnippetsLength(chunks, kept)
            whole == [j \in 1..kept |-> snippet(j)]
            cut == RSplitHead(Take(snippet(kept + 1), remaining)) \o <<".", ".", ".">>
        IN  /\ bc_out[1] = Join(IF kept < n /\ remaining > 100
                                THEN Append(whole, cut)
                                ELSE whole,
                                <<"\n", "\n">>)
            /\ n = 0 => bc_out[1] = <<>>

\* a snippet of 140 characters against a budget of 50 is left out, and so is
\* the one-letter chunk after it, which would fit
C25_Witness ==
    /\ ContextReturned
    /\ Len(bc_in.chunks) = 2
    /\ Len(bc_in.chunks[1].metadata.text) = 130
    /\ bc_in.chunks[2].metadata.text = <<"a">>
    /\ bc_in.max_length = 50
    /\ bc_out[1] = <<>>

\* a snippet is cut: 160 characters of budget, 50 used, the next snippet of
\* 140 characters comes back shortened and ended by "..."
C25_WitnessCut ==
    /\ ContextReturned
    /\ Len(bc_in.chunks) = 3
    /\ Len(bc_in.chunks[1].metadata.text) = 40
    /\ Len(bc_in.chunks[2].metadata.text) = 130
    /\ bc_in.max_length = 160
    /\ SubSeq(bc_out[1], Len(bc_out[1]) - 2, Len(bc_out[1])) = <<".", ".", ".">>

-----------------------------------------------------------------------------
(* C28: the shape of what rerank_chunks returns. *)

\* out takes its elements from distinct places of pool
FromDistinctPlaces(out, pool) ==
    \E f \in [1..Len(out) -> 1..Len(pool)] :
        /\ \A j \in 1..Len(out) : out[j] = pool[f[j]]
        /\ \A i, j \in 1..Len(out) : i # j => f[i] # f[j]

\* C28: for any pool, any top_k >= 0 and any outcome of the ranking call (a
\* reply of any text, or a failure), rerank_chunks returns min(top_k, size of
\* the pool) chunks, each a chunk of the pool, no place of the pool taken twice.
C28_ReturnsChunksOfThePool ==
    RerankReturned =>
        /\ Len(rr_out[1].out) = Min(rr_in.top_k, Len(rr_in.chunks))
        /\ FromDistinctPlaces(rr_out[1].out, rr_in.chunks)

\* top_k = 0 on a pool of two with the reply "1": the index is parsed and
\* taken, and nothing is returned
C28_Witness ==
    /\ RerankReturned
    /\ rr_in.top_k = 0
    /\ Len(rr_in.chunks) = 2
    /\ rr_in.reply = Ok(<<"1">>)
    /\ rr_out[1].called
    /\ rr_out[1].out = <<>>

-----------------------------------------------------------------------------
(* C27: calls of answer_question that give no answer. *)

\* C27: a call of answer_question that does not end in a successful synthesis
\* (blank question, nothing retrieved, blank context, a caught failure) leaves
\* chat_history and the session file as they were and does not call
\* save_session: the transcript and the file change only in the step that
\* returns the synthesized answer.
C27_NoAnswerLeavesSession ==
    /\ [][(chat_history' # chat_history \/ session_file' # session_file) =>
            /\ pc = "aq_reranked"
            /\ pc' = "idle"
            /\ result'.kind = "return"
            /\ "synthesis" \in calls'
            /\ "synthesis_failed" \notin calls']_vars
    /\ []((AnswerEnded /\ ~AnswerGiven) => "save_session" \notin calls)

\* the second call of the process failed at the synthesis; the transcript
\* and the file still hold the pair of the first call and nothing else
C27_Witness ==
    /\ AnswerEnded
    /\ ncalls = 2
    /\ "synthesis_failed" \in calls
    /\ Len(chat_history) = 2
    /\ session_file = chat_history

-----------------------------------------------------------------------------
(* C29: cross-link expansion is one hop. *)

\* the service calls op made for the input match at place c
CallsOfMatch(c, op) == {k \in 1..Len(links) : links[k].c = c /\ links[k].op = op}

\* the values an input match stores under schedule, appendix and part
StoredValues(m) == {m.metadata.schedule, m.metadata.appendix, m.metadata.part}

\* C29: expand_with_links takes its seeds from the input matches only, never
\* from a match a follow-up query found: every embedding and every index query
\* is made for a value stored in an input match, at most 3 embeddings and
\* 3 x (number of indexes) queries per input match, and the call ends.
C29_SingleHopBounded ==
    /\ [](entry = "expand_with_links" =>
            /\ \A k \in 1..Len(links) :
                 /\ links[k].c \in 1..Len(candidate_chunks)
                 /\ \E val \in StoredValues(candidate_chunks[links[k].c]) :
                      val.t = "str" /\ val.v = links[k].seed
            /\ \A c \in 1..Len(candidate_chunks) :
                 /\ Cardinality(CallsOfMatch(c, "embed")) <= 3
                 /\ Cardinality(CallsOfMatch(c, "query")) <= 3 * Len(IndexNames))
    /\ [](pc # "idle" => pc \in {"xl", "xl_chunk", "xl_embed", "xl_query"})
    /\ [][pc # "idle" => StepsLeft' < StepsLeft]_vars

\* one input match with two seeds; a follow-up query found x1, which names an
\* appendix itself, and the two embeddings of the input's seeds are all the
\* embeddings made
C29_Witness ==
    /\ LinksReturned
    /\ candidate_chunks = <<L1>>
    /\ \E i \in 1..Len(result.value) :
         /\ result.value[i].id = "x1"
         /\ result.value[i].metadata.appendix = StrVal(S_VII)
    /\ Cardinality(CallsOfMatch(1, "embed")) = 2
    /\ Cardinality(CallsOfMatch(1, "query")) = 2 * Len(IndexNames)

-----------------------------------------------------------------------------
(* C26: the list embed_documents_in_batches returns. *)

\* embed_documents_in_batches, called alone, has returned its list
EmbeddingsReturned ==
    ipc = "idle" /\ ientry = "embed_documents_in_batches" /\ iresult = "returned"

\* C26: whenever embed_documents_in_batches returns, whatever attempts failed
\* and were retried, its list holds one embedding for each input text, in the
\* order of the texts: the embedding at place i is that of text i, so the
\* batches of upsert_to_pinecone pair it with the id made from place i.
C26_OneEmbeddingPerText ==
    EmbeddingsReturned =>
        /\ Len(all_embeddings) = n_texts
        /\ \A p \in 0..(n_texts - 1) : all_embeddings[p + 1] = <<"vec", p>>
        /\ \A size \in 1..MaxBatchSize : \A i \in 0..(n_texts - 1) :
             i % size = 0 =>
               LET vectors == Vectors(ChunkFile("a.json", n_texts), i, size,
                                      all_embeddings)
               IN  /\ Len(vectors) = Min(size, n_texts - i)
                   /\ \A j \in 1..Len(vectors) :
                        /\ vectors[j].id.index = i + j - 1
                        /\ vectors[j].values = <<"vec", i + j - 1>>

\* three texts in batches of two: the first batch was retried after a
\* failure, the second went through, and the list of three came back
C26_Witness ==
    /\ EmbeddingsReturned
    /\ n_texts = 3
    /\ batch_size = 2
    /\ Len(tries) = 3
    /\ ~tries[1].ok
    /\ tries[2].ok
    /\ Len(all_embeddings) = 3

-----------------------------------------------------------------------------
(* C30: an upsert that fails for good, and the run after it. *)

\* the places of the chunks of a file that the index holds
PlacesHeld(st, name) == {v.index : v \in IdsOf(st, name)}

\* the upsert attempts of the file at hand that failed for the third time
GaveUp == {k \in Upserts : ~tries[k].ok /\ tries[k].attempt = 2}

\* C30: upsert_to_pinecone does not roll back.  When a batch has failed at its
\* third attempt, the vectors of the batches before it are in the index, no
\* batch after it is attempted, and main counts the file as failed, not as
\* ingested; nothing is ever taken out of the index; and a later run that
\* ingests the unchanged file in full leaves the index with one id for each
\* of its chunks, the ids of a run that never failed.
C30_NoRollbackRerunCompletes ==
    /\ [](cur # NoFile => \A k \in GaveUp :
            /\ k = Len(tries)
            /\ (0..(tries[k].i - 1)) \subseteq PlacesHeld(store, cur.name)
            /\ ientry = "main" =>
                 /\ failed_files # <<>>
                 /\ failed_files[Len(failed_files)] = cur.name
                 /\ cur.name \notin ingested)
    /\ [][store \subseteq store']_vars
    /\ [](\A j \in 1..Len(history) : \A i \in 1..j :
            \A name \in history[j].ingested :
               /\ IdsOf(history[i].store, name) \subseteq IdsOf(history[j].store, name)
               /\ PlacesHeld(history[j].store, name) = 0..PINECONE_BATCH_SIZE
               /\ Cardinality(IdsOf(history[j].store, name)) = PINECONE_BATCH_SIZE + 1)

\* the first run gave up on the second batch and left the 100 vectors of the
\* first batch in the index; the second run ingested the file in full
C30_Witness ==
    /\ Len(history) = 2
    /\ history[1].ingested = {}
    /\ Cardinality(history[1].store) = PINECONE_BATCH_SIZE
    /\ history[2].ingested = {"c.json"}
    /\ Cardinality(history[2].store) = PINECONE_BATCH_SIZE + 1

-----------------------------------------------------------------------------
(* ingest.py: sanitize_metadata, the metadata a chunk is stored with. *)

\* keys of one metadata mapping
MaxKeys == 2

S_bar == <<" ", "|", " ">>
S_colon == <<":">>
S_None == <<"N", "o", "n", "e">>

\* values by Python type; v holds what str() gives for a scalar, xs the
\* elements of a list, items the items of a dict in insertion order
IntVal(ds) == [t |-> "int", v |-> ds]
FloatVal(ds) == [t |-> "float", v |-> ds]
BoolVal(ds) == [t |-> "bool", v |-> ds]
ListVal(xs) == [t |-> "list", v |-> <<>>, xs |-> xs]
DictVal(items) == [t |-> "dict", v |-> <<>>, items |-> items]
OtherVal(ds) == [t |-> "other", v |-> ds]
Item(k, v) == [k |-> k, v |-> v]

\* str(x) of a scalar or of None
Str(x) == IF x.t = "none" THEN S_None ELSE x.v

\* isinstance(v, (str, int, float, bool))
IsDirect(x) == x.t \in {"str", "int", "float", "bool"}

\* all(isinstance(x, str) for x in v)
AllStr(xs) == \A i \in 1..Len(xs) : xs[i].t = "str"

InnerKeptAlways(iv) == TRUE

\* ... for ik, iv in v.items() if iv is not None
InnerKept(iv) == iv.t # "none"

\* f"{ik}:{iv}"
ItemText(it) == it.k \o S_colon \o Str(it.v)

\* the value stored for a value that is not None (lines 148-165)
SafeValue(x) ==
    IF IsDirect(x) THEN x
    ELSE IF x.t = "list" THEN
        IF AllStr(x.xs) THEN x
        ELSE StrVal(Join([i \in 1..Len(x.xs) |-> Str(x.xs[i])], S_bar))
    ELSE IF x.t = "dict" THEN
        LET kept == SelectSeq(x.items, LAMBDA it : InnerKept(it.v))
        IN  StrVal(Join([i \in 1..Len(kept) |-> ItemText(kept[i])], S_bar))
    ELSE StrVal(Str(x))

\* sanitize_metadata(meta): meta and the result are the items in insertion order
sanitize_metadata(meta) ==
    LET kept == SelectSeq(meta, LAMBDA it : it.v.t # "none")
    IN  [i \in 1..Len(kept) |-> Item(kept[i].k, SafeValue(kept[i].v))]

S_a == <<"a">>
S_b == <<"b">>
S_x == <<"x">>
S_1 == <<"1">>
S_2 == <<"2">>

\* the values a metadata key is given in the model
MetaValues ==
    { NoVal, StrVal(S_x), StrVal(<<>>), IntVal(S_1), FloatVal(<<"1", ".", "5">>),
      BoolVal(<<"T", "r", "u", "e">>), OtherVal(<<"(", "1", ",", ")">>),
      ListVal(<<>>), ListVal(<<StrVal(S_x), StrVal(S_a)>>),
      ListVal(<<StrVal(S_x), IntVal(S_1)>>), ListVal(<<NoVal, StrVal(S_x)>>),
      DictVal(<<>>), DictVal(<<Item(S_a, IntVal(S_1)), Item(S_b, IntVal(S_2))>>),
      DictVal(<<Item(S_a, IntVal(S_1)), Item(S_b, NoVal)>>),
      DictVal(<<Item(S_a, NoVal)>>),
      DictVal(<<Item(S_a, NoVal), Item(S_b, StrVal(S_x))>>) }

\* the i-th key of a mapping
KeyName(i) == <<"k", Digits[i + 1]>>

MetaMappings ==
    UNION { { [i \in 1..n |-> Item(KeyName(i), f[i])] : f \in [1..n -> MetaValues] }
            : n \in 0..MaxKeys }

InitSanitize ==
    /\ InitIdle
    /\ NoRerank
    /\ NoContext
    /\ NoExpand
    /\ NoIngest
    /\ NoPage
    /\ sm_in \in MetaMappings
    /\ sm_out = <<>>

\* meta = sanitize_metadata(meta)
SanitizeAlone ==
    /\ sm_out = <<>>
    /\ sm_out' = <<sanitize_metadata(sm_in)>>
    /\ UNCHANGED <<pipelineVars, rerankVars, contextVars, expandVars, ingestVars,
                   sm_in, pageVars>>

NextSanitize == SanitizeAlone

SpecSanitize == InitSanitize /\ [][NextSanitize]_vars

-----------------------------------------------------------------------------
(* C21: what sanitize_metadata stores. *)

\* the items of a mapping that are not None, in their order
RECURSIVE WithoutNone(_)
WithoutNone(items) ==
    IF items = <<>> THEN <<>>
    ELSE IF items[1].v = NoVal THEN WithoutNone(Tail(items))
    ELSE <<items[1]>> \o WithoutNone(Tail(items))

\* "k:v | k:v | ..." of the items given
RECURSIVE PairsText(_)
PairsText(items) ==
    IF items = <<>> THEN <<>>
    ELSE items[1].k \o S_colon \o Str(items[1].v)
         \o (IF Len(items) > 1 THEN S_bar \o PairsText(Tail(items)) ELSE <<>>)

\* the result holds the keys of meta that are not None, in meta's order, and
\* each value is a scalar or a list of strings
OnlySafeValues(meta, out) ==
    /\ [i \in 1..Len(out) |-> out[i].k]
         = [i \in 1..Len(WithoutNone(meta)) |-> WithoutNone(meta)[i].k]
    /\ \A i \in 1..Len(out) :
         /\ out[i].v.t \in {"str", "int", "float", "bool", "list"}
         /\ out[i].v.t = "list" => \A j \in 1..Len(out[i].v.xs) : out[i].v.xs[j].t = "str"

\* C21 as stated: the result has no None-valued key and only scalar or
\* list-of-string values, and a nested mapping is stored as the string of all
\* of its key:value pairs joined by " | ".
C21_FlattensEveryPair ==
    sm_out # <<>> =>
        /\ OnlySafeValues(sm_in, sm_out[1])
        /\ \A i \in 1..Len(WithoutNone(sm_in)) :
             WithoutNone(sm_in)[i].v.t = "dict" =>
                sm_out[1][i].v = StrVal(PairsText(WithoutNone(sm_in)[i].v.items))

\* C21: sanitize_metadata returns the keys whose value is not None, in their
\* order, each with a scalar or list-of-string value: scalars and lists of
\* strings are kept as they are, and a nested mapping is stored as the string
\* of its key:value pairs joined by " | ", the pairs whose value is None left
\* out.
C21_SanitizedMetadata ==
    sm_out # <<>> =>
        /\ OnlySafeValues(sm_in, sm_out[1])
        /\ \A i \in 1..Len(WithoutNone(sm_in)) :
             LET x == WithoutNone(sm_in)[i].v
             IN  /\ x.t = "dict" =>
                      sm_out[1][i].v = StrVal(PairsText(WithoutNone(x.items)))
                 /\ x.t \in {"str", "int", "float", "bool"} => sm_out[1][i].v = x
                 /\ (x.t = "list" /\ \A j \in 1..Len(x.xs) : x.xs[j].t = "str")
                      => sm_out[1][i].v = x

\* a None key is gone and {a: 1, b: None} is stored as "a:1"
C21_Witness ==
    /\ sm_out # <<>>
    /\ Len(sm_in) = 2
    /\ sm_in[1].v = NoVal
    /\ sm_in[2].v = DictVal(<<Item(S_a, IntVal(S_1)), Item(S_b, NoVal)>>)
    /\ sm_out[1] = <<Item(KeyName(2), StrVal(<<"a", ":", "1">>))>>

-----------------------------------------------------------------------------
(* pages/ui_integrated.py: the free trial of a visitor who is not logged in. *)

\* ui_integrated.py line 91
FREE_TRIAL_LIMIT == 5

\* browser sessions (the first visit and the refreshes after it) of one visitor
MaxSessions == 2

\* st.session_state after lines 96-121 of the first script run of a session
NewSession ==
    [logged_in |-> FALSE, question_count |-> 0, trial_exhausted |-> FALSE,
     fingerprint |-> 0, firestore_initialized |-> FALSE]

\* get_or_create_fingerprint(): the fingerprint of the session, or a new
\* uuid4, numbered here in the order of creation
get_or_create_fingerprint(ss, docs) ==
    IF ss.fingerprint # 0 THEN ss.fingerprint ELSE Len(docs) + 1

\* the collection once the uuid of a new fingerprint exists: it has no document
WithFingerprint(docs, fp) ==
    IF fp <= Len(docs) THEN docs ELSE Append(docs, <<>>)

\* get_question_count_from_firestore(fingerprint); ok: the read raised nothing
get_question_count_from_firestore(ss, docs, fp, ok) ==
    IF ~firestore_available THEN ss.question_count
    ELSE IF ~ok THEN ss.question_count
    ELSE IF fp <= Len(docs) /\ docs[fp] # <<>> THEN docs[fp][1]
    ELSE 0

\* save_question_count_to_firestore(fingerprint, count); ok: the write raised
\* nothing
save_question_count_to_firestore(docs, fp, count, ok) ==
    IF ~firestore_available \/ ~ok THEN docs
    ELSE [docs EXCEPT ![fp] = <<count>>]

\* init_trial_count()
init_trial_count(ss, docs, ok) ==
    IF ss.firestore_initialized THEN ss
    ELSE IF ~ss.logged_in /\ firestore_available THEN
        LET fp == get_or_create_fingerprint(ss, docs)
            count == get_question_count_from_firestore(
                         [ss EXCEPT !.fingerprint = fp], docs, fp, ok)
        IN  [ss EXCEPT !.fingerprint = fp,
                       !.question_count = count,
                       !.trial_exhausted = (count >= FREE_TRIAL_LIMIT) \/ @,
                       !.firestore_initialized = TRUE]
    ELSE [ss EXCEPT !.firestore_initialized = TRUE]

\* can_ask_question()
can_ask_question(ss) ==
    IF ss.logged_in THEN TRUE ELSE ss.question_count < FREE_TRIAL_LIMIT

\* the session state after increment_question_count()
increment_question_count(ss, docs) ==
    IF ss.logged_in THEN ss
    ELSE [ss EXCEPT !.question_count = @ + 1,
                    !.fingerprint = get_or_create_fingerprint(ss, docs),
                    !.trial_exhausted = (ss.question_count + 1 >= FREE_TRIAL_LIMIT) \/ @]

\* the visitor opens the page or refreshes it: a new session state, then the
\* first script run of the session, lines 96-128 and init_trial_count()
OpenPage ==
    /\ page.sessions < MaxSessions
    /\ \E ok \in BOOLEAN :
         LET ss == init_trial_count(NewSession, trial_users, ok)
         IN  /\ session' = <<ss>>
             /\ trial_users' = IF ss.fingerprint = 0 THEN trial_users
                               ELSE WithFingerprint(trial_users, ss.fingerprint)
             /\ page' = [page EXCEPT !.sessions = @ + 1,
                                     !.errors = @ \/ (firestore_available /\ ~ok)]
    /\ UNCHANGED <<firestore_available, pipelineVars, rerankVars, contextVars,
                   expandVars, ingestVars, sanitizeVars>>

\* the visitor sends a question (chat input or example button): the script
\* run of lines 908-934 in the session that is open
HandleInput ==
    /\ session # <<>>
    /\ \E ok \in BOOLEAN :
         LET ss == session[1]
         IN  IF ~can_ask_question(ss) THEN
                 /\ session' = <<[ss EXCEPT !.trial_exhausted = TRUE]>>
                 /\ UNCHANGED <<trial_users, page>>
             ELSE
                 LET after == increment_question_count(ss, trial_users)
                     docs == WithFingerprint(trial_users, after.fingerprint)
                 IN  /\ session' = <<after>>
                     /\ trial_users' =
                          IF ss.logged_in THEN trial_users
                          ELSE save_question_count_to_firestore(
                                   docs, after.fingerprint, after.question_count, ok)
                     /\ page' = [page EXCEPT
                                   !.answered = @ + 1,
                                   !.errors = @ \/ (firestore_available /\ ~ok)]
    /\ UNCHANGED <<firestore_available, pipelineVars, rerankVars, contextVars,
                   expandVars, ingestVars, sanitizeVars>>

InitTrial ==
    /\ InitIdle
    /\ NoRerank
    /\ NoContext
    /\ NoExpand
    /\ NoIngest
    /\ NoSanitize
    /\ session = <<>>
    /\ trial_users = <<>>
    /\ firestore_available \in BOOLEAN
    /\ page = [answered |-> 0, sessions |-> 0, errors |-> FALSE]

NextTrial == OpenPage \/ HandleInput

SpecTrial == InitTrial /\ [][NextTrial]_vars

-----------------------------------------------------------------------------
(* C22: the free trial across refreshes. *)

\* C22 as stated: with Firestore available and no Firestore call failing, a
\* visitor who is not logged in gets at most FREE_TRIAL_LIMIT questions
\* answered, however many times the page is refreshed.
C22_TrialLimitAcrossRefreshes ==
    (firestore_available /\ ~page.errors) => page.answered <= FREE_TRIAL_LIMIT

=============================================================================
